---- MODULE Spec2Model ----
(***************************************************************************)
(* State-machine model of quickcrop's ImageCropper (image-cropper.js):     *)
(* crop-frame geometry, fit/reset of the view, anchored zoom, drag and     *)
(* keyboard pan, extraction of the source rectangle, and image loading.    *)
(*                                                                         *)
(* JavaScript numbers are modelled as exact rationals <<n, d>> (d > 0, in  *)
(* lowest terms), so equalities stated here are the ones the code          *)
(* satisfies up to floating-point rounding.                                *)
(***************************************************************************)
EXTENDS Integers, Sequences, FiniteSets, TLC

-----------------------------------------------------------------------------
(* Exact rational arithmetic standing for JavaScript number arithmetic.    *)

Abs(x) == IF x < 0 THEN -x ELSE x

RECURSIVE GCD(_, _)
GCD(a, b) == IF b = 0 THEN a ELSE GCD(b, a % b)

Norm(n, d) ==
    LET g == GCD(Abs(n), Abs(d))
        s == IF d < 0 THEN -1 ELSE 1
    IN  <<(s * n) \div g, (s * d) \div g>>

Q(n, d) == Norm(n, d)
R(n) == <<n, 1>>

(* Sums and products are reduced before they are formed, so that the      *)
(* intermediate integers stay small.                                       *)
Add(x, y) ==
    LET g == GCD(x[2], y[2])
    IN  Norm(x[1] * (y[2] \div g) + y[1] * (x[2] \div g), (x[2] \div g) * y[2])
Sub(x, y) == Add(x, <<-y[1], y[2]>>)
Mul(x, y) ==
    LET g1 == GCD(Abs(x[1]), y[2])
        g2 == GCD(Abs(y[1]), x[2])
    IN  <<(x[1] \div g1) * (y[1] \div g2), (x[2] \div g2) * (y[2] \div g1)>>
Div(x, y) ==
    IF y[1] < 0 THEN Mul(x, <<-y[2], -y[1]>>) ELSE Mul(x, <<y[2], y[1]>>)
Neg(x) == <<-x[1], x[2]>>
Lt(x, y) == x[1] * y[2] < y[1] * x[2]
Le(x, y) == ~Lt(y, x)
MathMax(x, y) == IF Lt(x, y) THEN y ELSE x
MathMin(x, y) == IF Lt(y, x) THEN y ELSE x
MathSign(n) == IF n > 0 THEN 1 ELSE IF n < 0 THEN -1 ELSE 0

Zero == R(0)
One == R(1)
Two == R(2)

(* A nullable reference: NULL, or Some(v) whose value is Val(r).           *)
NULL == <<>>
Some(v) == <<v>>
Val(r) == r[1]

-----------------------------------------------------------------------------
(* Bounds of the model.                                                    *)

(* MaxSteps bounds the calls and events other than loadImage, MaxLoads the *)
(* loadImage calls, and MaxWork both together, a loadImage call (with the  *)
(* callbacks it brings) weighing twice.                                    *)
MaxSteps == 3
MaxLoads == 2
MaxWork == 5

-----------------------------------------------------------------------------
(* State of one ImageCropper and of the browser objects it uses.           *)

VARIABLES
    options,       \* this.options
    box,           \* the container's layout box, as the browser has it now
    destroyed,     \* destroy() has nulled container, options, overlay, cropFrame
    containerRect, \* this.containerRect: NULL or Some([left, top])
    frameRect,     \* this.frameRect: NULL or Some(frame)
    image,         \* this.image: an element id, 0 for null
    imageLoaded,   \* this.imageLoaded
    scale,         \* this.scale
    offsetX,       \* this.offsetX
    offsetY,       \* this.offsetY
    dragStart,     \* this.dragStart: NULL or Some([x, y, offsetX, offsetY])
    listeners,     \* the event types the cropper's handlers are attached for
    inDom,         \* the img elements attached under the container
    elems,         \* per img element: src, request state, bitmap shown
    readers,       \* the loads whose FileReader has not finished
    loadFile,      \* per load: the file given to loadImage
    promises,      \* per load: the state of the promise loadImage returned
    nloads,        \* loadImage calls so far
    steps,         \* other calls and events so far
    last,          \* the last call or event: its inputs, pre-state and result
    app            \* quickcropApp: state.imageFiles, state.currentImageIndex,
                   \* the hrefs of the download links clicked so far, and
                   \* the continuations of its async methods not yet run

vars == <<options, box, destroyed, containerRect, frameRect, image,
          imageLoaded, scale, offsetX, offsetY, dragStart, listeners, inDom,
          elems, readers, loadFile, promises, nloads, steps, last, app>>

-----------------------------------------------------------------------------
(* Inputs: configurations, container boxes, files, pointer positions.      *)

(* The defaults of the constructor (aspectRatio 8.5/11, minZoom 0.1,       *)
(* maxZoom 5, zoomStep 0.1) and a second configuration passed as options.  *)
DefaultOptions ==
    [aspectRatio |-> Q(17, 22), minZoom |-> Q(1, 10), maxZoom |-> R(5),
     zoomStep |-> Q(1, 10)]

WideOptions ==
    [aspectRatio |-> Q(3, 2), minZoom |-> Q(1, 2), maxZoom |-> R(2),
     zoomStep |-> Q(1, 2)]

Configs == {DefaultOptions, WideOptions}

(* The container as the browser lays it out: getBoundingClientRect()'s     *)
(* left/top and clientWidth/clientHeight.                                  *)
InitialBox == [left |-> 8, top |-> 8, w |-> 1000, h |-> 800]

ContainerBoxes ==
    { InitialBox,
      [left |-> 20, top |-> 30, w |-> 100, h |-> 100],
      [left |-> 0, top |-> 0, w |-> 0, h |-> 0],
      [left |-> 0, top |-> 0, w |-> 300, h |-> 0] }

(* Files handed to loadImage: type is the MIME type's class, ok says       *)
(* whether the bytes decode, w/h are the bitmap's natural size.            *)
Files ==
    << [type |-> "image", ok |-> TRUE, w |-> 2000, h |-> 1000],
       [type |-> "image", ok |-> TRUE, w |-> 60, h |-> 120],
       [type |-> "image", ok |-> FALSE, w |-> 0, h |-> 0],
       [type |-> "text", ok |-> FALSE, w |-> 0, h |-> 0] >>

FileIds == 1..Len(Files)

(* Pointer positions in client coordinates.                                *)
PointA == <<10, 10>>
PointB == <<60, -20>>
Points == { PointA, PointB }

(* zoomAtPoint calls: <<factor, client position>>.                         *)
ZoomCalls ==
    { <<One, PointA>>, <<R(10), PointB>>, <<Q(1, 10), PointA>>,
      <<R(-2), PointB>> }

(* Wheel events: <<deltaY, client position>>.                              *)
WheelEvents == { <<-100, PointA>>, <<100, PointB>>, <<0, PointB>> }

(* panImage deltas: an arrow key of app.js and a far pan.                  *)
PanDeltas == { <<0, -10>>, <<-5000, 0>> }

(* Mouse-down events: <<button, client position>>.                         *)
MouseDowns == { <<0, PointA>>, <<2, PointA>> }

(* Touch-start and touch-move events: <<number of touches, position of    *)
(* the first touch>>.                                                      *)
TouchStarts == { <<1, PointB>>, <<2, PointB>> }
TouchMoves == { <<1, PointA>>, <<2, PointA>> }

(* getCroppedImage calls: <<outputWidth, whether drawing or encoding       *)
(* fails>>.                                                                *)
CropCalls == { <<R(850), FALSE>>, <<Q(1, 3), FALSE>>, <<R(850), TRUE>> }

-----------------------------------------------------------------------------
(* Crop-frame geometry (updateCropFrame).                                  *)

(* The share of each container dimension the frame may occupy.             *)
AvailableShare == Q(9, 10)

(* FrameSize with the comparison of the two ratios turned round.           *)
FrameSizeFlipped(availableWidth, availableHeight, aspectRatio) ==
    LET heightBinds == Lt(Div(availableWidth, availableHeight), aspectRatio)
        fw == IF heightBinds THEN Mul(availableHeight, aspectRatio)
              ELSE availableWidth
        fh == IF heightBinds THEN availableHeight
              ELSE Div(availableWidth, aspectRatio)
    IN  <<MathMax(Zero, fw), MathMax(Zero, fh)>>

(* The frame's <<width, height>> inside the available area.                *)
FrameSize(availableWidth, availableHeight, aspectRatio) ==
    LET heightBinds == Lt(aspectRatio, Div(availableWidth, availableHeight))
        fw == IF heightBinds THEN Mul(availableHeight, aspectRatio)
              ELSE availableWidth
        fh == IF heightBinds THEN availableHeight
              ELSE Div(availableWidth, aspectRatio)
    IN  <<MathMax(Zero, fw), MathMax(Zero, fh)>>

(* FramePlace centring the frame in the available area instead of the     *)
(* container.                                                              *)
FramePlaceInAvailable(containerWidth, containerHeight, frameWidth, frameHeight) ==
    LET left == Div(Sub(Mul(R(containerWidth), AvailableShare), frameWidth), Two)
        top == Div(Sub(Mul(R(containerHeight), AvailableShare), frameHeight), Two)
    IN  [left |-> left, top |-> top,
         width |-> frameWidth, height |-> frameHeight,
         right |-> Add(left, frameWidth),
         bottom |-> Add(top, frameHeight)]

(* The frame of that size, centred in the container.                       *)
FramePlace(containerWidth, containerHeight, frameWidth, frameHeight) ==
    LET left == Div(Sub(R(containerWidth), frameWidth), Two)
        top == Div(Sub(R(containerHeight), frameHeight), Two)
    IN  [left |-> left, top |-> top,
         width |-> frameWidth, height |-> frameHeight,
         right |-> Add(left, frameWidth),
         bottom |-> Add(top, frameHeight)]

ComputeFrame(containerWidth, containerHeight, aspectRatio) ==
    IF containerWidth <= 0 \/ containerHeight <= 0
    THEN NULL
    ELSE
      LET size == FrameSize(Mul(R(containerWidth), AvailableShare),
                            Mul(R(containerHeight), AvailableShare),
                            aspectRatio)
      IN  Some(FramePlace(containerWidth, containerHeight, size[1], size[2]))

-----------------------------------------------------------------------------
(* Fit and reset of the view (resetView).                                  *)

View(s, x, y) == [scale |-> s, offsetX |-> x, offsetY |-> y]

DefaultView == View(One, Zero, Zero)

(* FitScale with the two branches exchanged.                               *)
FitScaleExchanged(imgWidth, imgHeight, frameWidth, frameHeight) ==
    LET imageAspect == Div(imgWidth, imgHeight)
        frameAspect == Div(frameWidth, frameHeight)
    IN  IF Lt(frameAspect, imageAspect)
        THEN Div(frameWidth, imgWidth)
        ELSE Div(frameHeight, imgHeight)

(* The scale resetView computes for positive image and frame dimensions.   *)
FitScale(imgWidth, imgHeight, frameWidth, frameHeight) ==
    LET imageAspect == Div(imgWidth, imgHeight)
        frameAspect == Div(frameWidth, frameHeight)
    IN  IF Lt(frameAspect, imageAspect)
        THEN Div(frameHeight, imgHeight)
        ELSE Div(frameWidth, imgWidth)

(* CentreOffset measuring from the frame's corner instead of its centre.   *)
CentreOffsetFromCorner(imgWidth, imgHeight, s, frame) ==
    <<Sub(frame.left, Div(Mul(imgWidth, s), Two)),
      Sub(frame.top, Div(Mul(imgHeight, s), Two))>>

(* The offset that puts the scaled image's centre on the frame's centre.   *)
CentreOffset(imgWidth, imgHeight, s, frame) ==
    LET scaledWidth == Mul(imgWidth, s)
        scaledHeight == Mul(imgHeight, s)
        frameCenterX == Add(frame.left, Div(frame.width, Two))
        frameCenterY == Add(frame.top, Div(frame.height, Two))
    IN  <<Sub(frameCenterX, Div(scaledWidth, Two)),
          Sub(frameCenterY, Div(scaledHeight, Two))>>

(* resetView past its first guard: the view it stores for an image of      *)
(* natural size imgW x imgH (integers) and the cached frame.               *)
(* resetView checking the image's dimensions only.                         *)
ResetViewOfFrameUnchecked(imgW, imgH, frame) ==
    IF imgW <= 0 \/ imgH <= 0
    THEN DefaultView
    ELSE
      LET s == FitScale(R(imgW), R(imgH), frame.width, frame.height)
          off == CentreOffset(R(imgW), R(imgH), s, frame)
      IN  View(s, off[1], off[2])

(* resetView clamping its scale to [minZoom, maxZoom].                     *)
ResetViewOfClamped(imgW, imgH, frame) ==
    IF imgW <= 0 \/ imgH <= 0 \/ ~Lt(Zero, frame.width) \/ ~Lt(Zero, frame.height)
    THEN DefaultView
    ELSE
      LET s == MathMax(options.minZoom,
                       MathMin(options.maxZoom,
                               FitScale(R(imgW), R(imgH), frame.width,
                                        frame.height)))
          off == CentreOffset(R(imgW), R(imgH), s, frame)
      IN  View(s, off[1], off[2])

ResetViewOf(imgW, imgH, frame) ==
    IF imgW <= 0 \/ imgH <= 0 \/ ~Lt(Zero, frame.width) \/ ~Lt(Zero, frame.height)
    THEN DefaultView
    ELSE
      LET s == FitScale(R(imgW), R(imgH), frame.width, frame.height)
          off == CentreOffset(R(imgW), R(imgH), s, frame)
      IN  View(s, off[1], off[2])

-----------------------------------------------------------------------------
(* Anchored zoom (zoomAtPoint, zoomIn, zoomOut, handleWheel).              *)

(* ClampScale without the lower limit.                                     *)
ClampScaleNoMin(s, opts) == MathMin(opts.maxZoom, s)

(* ClampScale with zero for its lower limit.                               *)
ClampScaleZeroFloor(s, opts) == MathMax(Zero, MathMin(opts.maxZoom, s))

(* ClampScale without the upper limit.                                     *)
ClampScaleNoMax(s, opts) == MathMax(opts.minZoom, s)

ClampScale(s, opts) == MathMax(opts.minZoom, MathMin(opts.maxZoom, s))

(* The container point of a client position, by the cached containerRect. *)
ContainerPoint(client, rect) ==
    <<Sub(client[1], R(rect.left)), Sub(client[2], R(rect.top))>>

(* The client position of a container point, as zoomIn/zoomOut form it.    *)
ClientPoint(pt, rect) ==
    <<Add(R(rect.left), pt[1]), Add(R(rect.top), pt[2])>>

(* AnchoredOffset leaving out the new scale.                               *)
AnchoredOffsetUnscaled(pt, img, newScale) ==
    <<Sub(pt[1], img[1]), Sub(pt[2], img[2])>>

(* The offset that keeps image point img under container point pt.         *)
AnchoredOffset(pt, img, newScale) ==
    <<Sub(pt[1], Mul(img[1], newScale)), Sub(pt[2], Mul(img[2], newScale))>>

(* zoomAtPoint adding the factor to the scale.                             *)
ZoomViewAdditive(v, opts, factor, pt) ==
    LET imageX == Div(Sub(pt[1], v.offsetX), v.scale)
        imageY == Div(Sub(pt[2], v.offsetY), v.scale)
        newScale == ClampScale(Add(v.scale, factor), opts)
        off == AnchoredOffset(pt, <<imageX, imageY>>, newScale)
    IN  IF newScale = v.scale THEN v
        ELSE View(newScale, off[1], off[2])

(* zoomAtPoint past its first guard, on view v with anchor pt given as a   *)
(* container point (pointX, pointY).                                       *)
ZoomView(v, opts, factor, pt) ==
    LET imageX == Div(Sub(pt[1], v.offsetX), v.scale)
        imageY == Div(Sub(pt[2], v.offsetY), v.scale)
        newScale == ClampScale(Mul(v.scale, factor), opts)
        off == AnchoredOffset(pt, <<imageX, imageY>>, newScale)
    IN  IF newScale = v.scale THEN v
        ELSE View(newScale, off[1], off[2])

(* zoomAtPoint writing the transform on every call.                        *)
ZoomRendersAlways(v, opts, factor) == TRUE

(* Whether zoomAtPoint past its first guard, on view v, goes on to assign  *)
(* the view and call updateImageTransform(), or returns before both.       *)
ZoomRenders(v, opts, factor) ==
    ClampScale(Mul(v.scale, factor), opts) # v.scale

(* zoomOut stepping down by zoomStep.                                      *)
ZoomOutFactorSubtract(opts) == Sub(One, opts.zoomStep)

(* The factors of zoomIn, zoomOut and a wheel step.                        *)

(* The factor of zoomIn with the step counted twice.                       *)
ZoomInFactorTwice(opts) == Add(One, Mul(Two, opts.zoomStep))

ZoomInFactor(opts) == Add(One, opts.zoomStep)
ZoomOutFactor(opts) == Div(One, Add(One, opts.zoomStep))

(* The wheel factor without the negation of the sign of deltaY.            *)
WheelFactorUnnegated(deltaY, opts) ==
    Add(One, Mul(R(MathSign(deltaY)), opts.zoomStep))

WheelFactor(deltaY, opts) ==
    Add(One, Mul(R(-MathSign(deltaY)), opts.zoomStep))

(* The frame's geometric centre as a container point.                      *)
FrameCentre(frame) ==
    <<Add(frame.left, Div(frame.width, Two)),
      Add(frame.top, Div(frame.height, Two))>>

-----------------------------------------------------------------------------
(* Drag and pan (handleMouseMove, handleTouchMove, panImage).              *)

(* DragOffset dividing the pointer's displacement by the current scale.    *)
DragOffsetScaled(start, client) ==
    <<Add(start.offsetX, Div(R(client[1] - start.x), scale)),
      Add(start.offsetY, Div(R(client[2] - start.y), scale))>>

DragOffset(start, client) ==
    <<Add(start.offsetX, R(client[1] - start.x)),
      Add(start.offsetY, R(client[2] - start.y))>>

(* PanOffset taking the deltas in image pixels.                            *)
PanOffsetScaled(v, delta) ==
    <<Add(v.offsetX, Mul(v.scale, R(delta[1]))),
      Add(v.offsetY, Mul(v.scale, R(delta[2])))>>

PanOffset(v, delta) ==
    <<Add(v.offsetX, R(delta[1])), Add(v.offsetY, R(delta[2]))>>

-----------------------------------------------------------------------------
(* Extraction (getCroppedImage).                                           *)

(* Math.floor in the place of Math.round.                                  *)
MathFloor(x) == x[1] \div x[2]

(* Math.round: the nearest integer, halves rounded up.                     *)
MathRound(x) == (2 * x[1] + x[2]) \div (2 * x[2])

(* SourceRect without the division of the position by the scale.          *)
SourceRectUnscaled(frame, v) ==
    [sourceX |-> Sub(frame.left, v.offsetX),
     sourceY |-> Sub(frame.top, v.offsetY),
     sourceWidth |-> Div(frame.width, v.scale),
     sourceHeight |-> Div(frame.height, v.scale)]

(* The source rectangle drawImage is given.                                *)
SourceRect(frame, v) ==
    [sourceX |-> Div(Sub(frame.left, v.offsetX), v.scale),
     sourceY |-> Div(Sub(frame.top, v.offsetY), v.scale),
     sourceWidth |-> Div(frame.width, v.scale),
     sourceHeight |-> Div(frame.height, v.scale)]

(* The canvas size for a requested output width.                           *)
CanvasSize(outputWidth, aspectRatio) ==
    [width |-> MathRound(outputWidth),
     height |-> MathRound(Div(outputWidth, aspectRatio))]

-----------------------------------------------------------------------------
(* Operators on the state.                                                 *)

view == View(scale, offsetX, offsetY)

LoadIds == 1..MaxLoads

NoElem == [src |-> 0, state |-> "none", shown |-> 0]

(* naturalWidth / naturalHeight of an img element.                         *)
NaturalWidth(e) == IF elems[e].shown = 0 THEN 0 ELSE Files[elems[e].shown].w
NaturalHeight(e) == IF elems[e].shown = 0 THEN 0 ELSE Files[elems[e].shown].h

NoPoint == <<Zero, Zero>>

(* The record kept of a call or event: op names it, hit says it passed its *)
(* guards, view and drag are the state before it, pt the container point   *)
(* and factor the zoom factor it used, client the pointer position, n the  *)
(* button or touch count, ret what it returned, threw whether it raised.   *)
(* A call that returns at its guard changes nothing whatever its inputs,   *)
(* and is recorded by Miss without them. drew says that a zoom call went   *)
(* on to updateImageTransform(). grab is the scale at which the drag       *)
(* session in progress began (1 while there is none).                      *)
ZoomOps == {"zoomAtPoint", "zoomIn", "zoomOut", "wheel"}

DragStarts == {"mousedown", "touchstart"}

Last(op, hit, pt, factor, client, n, ret, threw) ==
    [op |-> op, hit |-> hit, view |-> view, drag |-> dragStart,
     pt |-> pt, factor |-> factor, client |-> client,
     n |-> n, ret |-> ret, threw |-> threw,
     drew |-> hit /\ op \in ZoomOps /\ ZoomRenders(view, options, factor),
     grab |-> IF hit /\ op \in DragStarts THEN scale
              ELSE IF dragStart = NULL THEN One ELSE last.grab]

Miss(op) == Last(op, FALSE, NoPoint, One, <<0, 0>>, 0, NULL, FALSE)

(* quickcropApp as its constructor leaves it: no files, index -1, nothing  *)
(* downloaded, no continuation of an async method waiting, no microtask    *)
(* checkpoint in progress.                                                 *)
NoApp ==
    [imageFiles |-> <<>>, currentImageIndex |-> -1, downloads |-> <<>>,
     jobs |-> <<>>, settling |-> FALSE]

Init ==
    /\ options \in Configs
    /\ box = InitialBox
    /\ destroyed = FALSE
    /\ containerRect = Some([left |-> box.left, top |-> box.top])
    /\ frameRect = ComputeFrame(box.w, box.h, options.aspectRatio)
    /\ image = 0
    /\ imageLoaded = FALSE
    /\ scale = One
    /\ offsetX = Zero
    /\ offsetY = Zero
    /\ dragStart = NULL
    /\ listeners = {}
    /\ inDom = {}
    /\ elems = [e \in LoadIds |-> NoElem]
    /\ readers = {}
    /\ loadFile = [e \in LoadIds |-> 0]
    /\ promises = [e \in LoadIds |-> "none"]
    /\ nloads = 0
    /\ steps = 0
    /\ last = [op |-> "constructor", hit |-> TRUE, view |-> DefaultView,
               drag |-> NULL, pt |-> NoPoint, factor |-> One,
               client |-> <<0, 0>>, n |-> 0, ret |-> NULL, threw |-> FALSE,
               drew |-> FALSE, grab |-> One]
    /\ app = NoApp

-----------------------------------------------------------------------------
(* Frame and view operations.                                              *)

SetView(w) ==
    \E v \in {w} :
        /\ scale' = v.scale
        /\ offsetX' = v.offsetX
        /\ offsetY' = v.offsetY

Work == steps + nloads + nloads

Count(rec) ==
    /\ steps < MaxSteps
    /\ Work + 1 <= MaxWork
    /\ steps' = steps + 1
    /\ last' = rec

(* The browser lays the container out anew; no handler of the cropper runs.*)
Resize(b) ==
    /\ b # box
    /\ box' = b
    /\ Count(Last("resize", TRUE, NoPoint, One, <<0, 0>>, 0, NULL, FALSE))
    /\ UNCHANGED <<app, options, destroyed, containerRect, frameRect, image,
                   imageLoaded, scale, offsetX, offsetY, dragStart, listeners,
                   inDom, elems, readers, loadFile, promises, nloads>>

(* updateCropFrame(), as its callers run it on the current state.          *)
UpdateCropFrameEffect ==
    IF destroyed
    THEN UNCHANGED <<containerRect, frameRect>>
    ELSE /\ containerRect' = Some([left |-> box.left, top |-> box.top])
         /\ frameRect' = ComputeFrame(box.w, box.h, options.aspectRatio)

UpdateCropFrame ==
    /\ UpdateCropFrameEffect
    /\ Count(IF destroyed THEN Miss("updateCropFrame")
             ELSE Last("updateCropFrame", TRUE, NoPoint, One, <<0, 0>>, 0,
                       NULL, FALSE))
    /\ UNCHANGED <<app, options, box, destroyed, image, imageLoaded, scale, offsetX,
                   offsetY, dragStart, listeners, inDom, elems, readers,
                   loadFile, promises, nloads>>

(* The view resetView() leaves, given the frame it finds cached.           *)
ResetViewResult(loaded, img, frame) ==
    IF ~loaded \/ img = 0 \/ frame = NULL
    THEN view
    ELSE ResetViewOf(NaturalWidth(img), NaturalHeight(img), Val(frame))

ResetView ==
    /\ SetView(ResetViewResult(imageLoaded, image, frameRect))
    /\ Count(IF imageLoaded /\ image # 0 /\ frameRect # NULL
             THEN Last("resetView", TRUE, NoPoint, One, <<0, 0>>, 0, NULL,
                       FALSE)
             ELSE Miss("resetView"))
    /\ UNCHANGED <<app, options, box, destroyed, containerRect, frameRect, image,
                   imageLoaded, dragStart, listeners, inDom, elems, readers,
                   loadFile, promises, nloads>>

(* The view zoomAtPoint(factor, clientX, clientY) leaves.                  *)
ZoomAtPointResult(factor, client) ==
    IF ~imageLoaded \/ containerRect = NULL
    THEN view
    ELSE ZoomView(view, options, factor,
                  ContainerPoint(client, Val(containerRect)))

ZoomPast == imageLoaded /\ containerRect # NULL

ZoomPoint(client) ==
    IF ZoomPast THEN ContainerPoint(client, Val(containerRect)) ELSE NoPoint

RPt(p) == <<R(p[1]), R(p[2])>>

ZoomAtPoint(factor, p) ==
    /\ SetView(ZoomAtPointResult(factor, RPt(p)))
    /\ Count(IF ZoomPast
             THEN Last("zoomAtPoint", TRUE, ZoomPoint(RPt(p)), factor, p, 0,
                       NULL, FALSE)
             ELSE Miss("zoomAtPoint"))
    /\ UNCHANGED <<app, options, box, destroyed, containerRect, frameRect, image,
                   imageLoaded, dragStart, listeners, inDom, elems, readers,
                   loadFile, promises, nloads>>

(* The client position zoomIn/zoomOut pass to zoomAtPoint.                 *)
FrameCentreClient ==
    ClientPoint(FrameCentre(Val(frameRect)), Val(containerRect))

(* zoomIn/zoomOut falling back on the container's corner when there is no *)
(* frame.                                                                  *)
ZoomButtonResultAtCorner(factor) ==
    IF ~imageLoaded
    THEN view
    ELSE ZoomAtPointResult(factor,
                           IF frameRect = NULL
                           THEN ClientPoint(NoPoint, Val(containerRect))
                           ELSE FrameCentreClient)

ZoomButtonResult(factor) ==
    IF ~imageLoaded \/ frameRect = NULL
    THEN view
    ELSE ZoomAtPointResult(factor, FrameCentreClient)

ZoomButton(op, factor) ==
    /\ SetView(ZoomButtonResult(factor))
    /\ Count(IF imageLoaded /\ frameRect # NULL
             THEN Last(op, TRUE, ZoomPoint(FrameCentreClient), factor,
                       <<0, 0>>, 0, NULL, FALSE)
             ELSE Miss(op))
    /\ UNCHANGED <<app, options, box, destroyed, containerRect, frameRect, image,
                   imageLoaded, dragStart, listeners, inDom, elems, readers,
                   loadFile, promises, nloads>>

ZoomIn == ZoomButton("zoomIn", ZoomInFactor(options))

ZoomOut == ZoomButton("zoomOut", ZoomOutFactor(options))

HandleWheel(deltaY, p) ==
    /\ "wheel" \in listeners
    /\ SetView(ZoomAtPointResult(WheelFactor(deltaY, options), RPt(p)))
    /\ Count(IF ZoomPast
             THEN Last("wheel", TRUE, ZoomPoint(RPt(p)),
                       WheelFactor(deltaY, options), p, deltaY, NULL, FALSE)
             ELSE Miss("wheel"))
    /\ UNCHANGED <<app, options, box, destroyed, containerRect, frameRect, image,
                   imageLoaded, dragStart, listeners, inDom, elems, readers,
                   loadFile, promises, nloads>>

(* panImage without its guard on imageLoaded.                              *)
PanImageUnguarded(d) ==
    /\ offsetX' = PanOffset(view, d)[1]
    /\ offsetY' = PanOffset(view, d)[2]
    /\ Count(Last("panImage", TRUE, NoPoint, One, d, 0, NULL, FALSE))
    /\ UNCHANGED <<app, options, box, destroyed, containerRect, frameRect, image,
                   imageLoaded, scale, dragStart, listeners, inDom, elems,
                   readers, loadFile, promises, nloads>>

PanImage(d) ==
    /\ IF imageLoaded
       THEN /\ offsetX' = PanOffset(view, d)[1]
            /\ offsetY' = PanOffset(view, d)[2]
       ELSE UNCHANGED <<offsetX, offsetY>>
    /\ Count(IF imageLoaded
             THEN Last("panImage", TRUE, NoPoint, One, d, 0, NULL, FALSE)
             ELSE Miss("panImage"))
    /\ UNCHANGED <<app, options, box, destroyed, containerRect, frameRect, image,
                   imageLoaded, scale, dragStart, listeners, inDom, elems,
                   readers, loadFile, promises, nloads>>

-----------------------------------------------------------------------------
(* Gesture handlers. An event reaches its handler only while the handler   *)
(* is attached for it.                                                     *)

NewDrag(p) ==
    Some([x |-> p[1], y |-> p[2], offsetX |-> offsetX, offsetY |-> offsetY])

HandleMouseDown(button, p) ==
    /\ "mousedown" \in listeners
    /\ IF ~imageLoaded \/ button # 0
       THEN UNCHANGED <<dragStart, listeners>>
       ELSE /\ dragStart' = NewDrag(p)
            /\ listeners' = listeners \cup {"mousemove", "mouseup"}
    /\ Count(IF imageLoaded
             THEN Last("mousedown", button = 0, NoPoint, One, p, button, NULL,
                       FALSE)
             ELSE Miss("mousedown"))
    /\ UNCHANGED <<app, options, box, destroyed, containerRect, frameRect, image,
                   imageLoaded, scale, offsetX, offsetY, inDom, elems,
                   readers, loadFile, promises, nloads>>

(* What a pointer move at client position p leaves as offset.              *)
MoveResult(active, p) ==
    IF active THEN DragOffset(Val(dragStart), p) ELSE <<offsetX, offsetY>>

HandleMouseMove(p) ==
    /\ "mousemove" \in listeners
    /\ offsetX' = MoveResult(dragStart # NULL, p)[1]
    /\ offsetY' = MoveResult(dragStart # NULL, p)[2]
    /\ Count(IF dragStart # NULL
             THEN Last("mousemove", TRUE, NoPoint, One, p, 1, NULL, FALSE)
             ELSE Miss("mousemove"))
    /\ UNCHANGED <<app, options, box, destroyed, containerRect, frameRect, image,
                   imageLoaded, scale, dragStart, listeners, inDom, elems,
                   readers, loadFile, promises, nloads>>

(* The mouseup listener is attached with once: true.                       *)
HandleMouseUp ==
    /\ "mouseup" \in listeners
    /\ dragStart' = NULL
    /\ listeners' = IF dragStart = NULL THEN listeners \ {"mouseup"}
                    ELSE listeners \ {"mouseup", "mousemove"}
    /\ Count(Last("mouseup", dragStart # NULL, NoPoint, One, <<0, 0>>, 0,
                  NULL, FALSE))
    /\ UNCHANGED <<app, options, box, destroyed, containerRect, frameRect, image,
                   imageLoaded, scale, offsetX, offsetY, inDom, elems,
                   readers, loadFile, promises, nloads>>

(* touches is the number of touches of the event, p the first of them.     *)
HandleTouchStart(touches, p) ==
    /\ "touchstart" \in listeners
    /\ IF ~imageLoaded \/ touches # 1
       THEN UNCHANGED <<dragStart, listeners>>
       ELSE /\ dragStart' = NewDrag(p)
            /\ listeners' = listeners \cup {"touchmove", "touchend"}
    /\ Count(IF imageLoaded
             THEN Last("touchstart", touches = 1, NoPoint, One, p, touches,
                       NULL, FALSE)
             ELSE Miss("touchstart"))
    /\ UNCHANGED <<app, options, box, destroyed, containerRect, frameRect, image,
                   imageLoaded, scale, offsetX, offsetY, inDom, elems,
                   readers, loadFile, promises, nloads>>

HandleTouchMove(touches, p) ==
    /\ "touchmove" \in listeners
    /\ offsetX' = MoveResult(dragStart # NULL /\ touches = 1, p)[1]
    /\ offsetY' = MoveResult(dragStart # NULL /\ touches = 1, p)[2]
    /\ Count(IF dragStart # NULL
             THEN Last("touchmove", touches = 1, NoPoint, One, p, touches,
                       NULL, FALSE)
             ELSE Miss("touchmove"))
    /\ UNCHANGED <<app, options, box, destroyed, containerRect, frameRect, image,
                   imageLoaded, scale, dragStart, listeners, inDom, elems,
                   readers, loadFile, promises, nloads>>

(* The touchend listener is attached with once: true.                      *)
HandleTouchEnd ==
    /\ "touchend" \in listeners
    /\ dragStart' = NULL
    /\ listeners' = IF dragStart = NULL THEN listeners \ {"touchend"}
                    ELSE listeners \ {"touchend", "touchmove"}
    /\ Count(Last("touchend", dragStart # NULL, NoPoint, One, <<0, 0>>, 0,
                  NULL, FALSE))
    /\ UNCHANGED <<app, options, box, destroyed, containerRect, frameRect, image,
                   imageLoaded, scale, offsetX, offsetY, inDom, elems,
                   readers, loadFile, promises, nloads>>

-----------------------------------------------------------------------------
(* Extraction.                                                             *)

(* getCroppedImage without its first guard, encoding an empty canvas.      *)
CropResultBlank(outputWidth, fails) ==
    IF fails THEN NULL
    ELSE Some([canvas |-> CanvasSize(outputWidth, options.aspectRatio),
               source |-> IF ~imageLoaded \/ image = 0 \/ frameRect = NULL
                          THEN [sourceX |-> Zero, sourceY |-> Zero,
                                sourceWidth |-> Zero, sourceHeight |-> Zero]
                          ELSE SourceRect(Val(frameRect), view)])

(* What getCroppedImage(format, quality, outputWidth) returns: NULL, or    *)
(* the canvas and the source rectangle drawn into it. fails stands for     *)
(* getContext returning null, or drawImage or toDataURL throwing.          *)
CropResult(outputWidth, fails) ==
    IF ~imageLoaded \/ image = 0 \/ frameRect = NULL
    THEN NULL
    ELSE IF fails THEN NULL
    ELSE Some([canvas |-> CanvasSize(outputWidth, options.aspectRatio),
               source |-> SourceRect(Val(frameRect), view)])

(* getCroppedImage resetting the view when drawing or encoding fails.      *)
GetCroppedImageResetting(outputWidth, fails) ==
    /\ Count(IF imageLoaded /\ image # 0 /\ frameRect # NULL
             THEN Last("getCroppedImage", TRUE, NoPoint, outputWidth,
                       <<0, 0>>, 0, CropResult(outputWidth, fails), FALSE)
             ELSE [Miss("getCroppedImage") EXCEPT
                     !.ret = CropResult(outputWidth, fails)])
    /\ IF fails THEN SetView(DefaultView)
       ELSE UNCHANGED <<scale, offsetX, offsetY>>
    /\ UNCHANGED <<app, options, box, destroyed, containerRect, frameRect, image,
                   imageLoaded, dragStart, listeners, inDom, elems, readers,
                   loadFile, promises, nloads>>

GetCroppedImage(outputWidth, fails) ==
    /\ Count(IF imageLoaded /\ image # 0 /\ frameRect # NULL
             THEN Last("getCroppedImage", TRUE, NoPoint, outputWidth,
                       <<0, 0>>, 0, CropResult(outputWidth, fails), FALSE)
             ELSE [Miss("getCroppedImage") EXCEPT
                     !.ret = CropResult(outputWidth, fails)])
    /\ UNCHANGED <<app, options, box, destroyed, containerRect, frameRect, image,
                   imageLoaded, scale, offsetX, offsetY, dragStart, listeners,
                   inDom, elems, readers, loadFile, promises, nloads>>

-----------------------------------------------------------------------------
(* Loading, clearing and destroying.                                       *)

(* clear() leaving the drag session in place.                              *)
ClearEffectKeepsDrag ==
    /\ listeners' = {}
    /\ inDom' = inDom \ {image}
    /\ image' = 0
    /\ imageLoaded' = FALSE
    /\ SetView(DefaultView)
    /\ dragStart' = dragStart

(* clear() on a cropper that still has its container.                      *)
ClearEffect ==
    /\ listeners' = {}
    /\ inDom' = inDom \ {image}
    /\ image' = 0
    /\ imageLoaded' = FALSE
    /\ SetView(DefaultView)
    /\ dragStart' = NULL

ClearVars == <<listeners, inDom, image, imageLoaded, scale, offsetX, offsetY,
               dragStart>>

(* clear(): after destroy() its first statement dereferences the null      *)
(* container and throws.                                                   *)
Clear ==
    /\ IF destroyed THEN UNCHANGED ClearVars ELSE ClearEffect
    /\ Count(Last("clear", ~destroyed, NoPoint, One, <<0, 0>>, 0, NULL,
                  destroyed))
    /\ UNCHANGED <<app, options, box, destroyed, containerRect, frameRect, elems,
                   readers, loadFile, promises, nloads>>

Destroy ==
    /\ IF destroyed
       THEN UNCHANGED <<ClearVars, containerRect, frameRect>>
       ELSE /\ ClearEffect
            /\ containerRect' = NULL
            /\ frameRect' = NULL
    /\ destroyed' = TRUE
    /\ Count(Last("destroy", ~destroyed, NoPoint, One, <<0, 0>>, 0, NULL,
                  destroyed))
    /\ UNCHANGED <<app, options, box, elems, readers, loadFile, promises, nloads>>

(* loadImage(file): clear(), the type check, then a new img element and a  *)
(* FileReader started on the file. The load, its element, its reader and   *)
(* its promise share one id.                                               *)
LoadImageEffect(f) ==
    /\ nloads' = nloads + 1
    /\ loadFile' = [loadFile EXCEPT ![nloads + 1] = f]
    /\ IF destroyed
       THEN /\ promises' = [promises EXCEPT ![nloads + 1] = "rejected"]
            /\ UNCHANGED <<ClearVars, elems, readers>>
       ELSE IF Files[f].type # "image"
       THEN /\ ClearEffect
            /\ promises' = [promises EXCEPT ![nloads + 1] = "rejected"]
            /\ UNCHANGED <<elems, readers>>
       ELSE /\ listeners' = {}
            /\ inDom' = inDom \ {image}
            /\ image' = nloads + 1
            /\ imageLoaded' = FALSE
            /\ SetView(DefaultView)
            /\ dragStart' = NULL
            /\ readers' = readers \cup {nloads + 1}
            /\ promises' = [promises EXCEPT ![nloads + 1] = "pending"]
            /\ UNCHANGED elems

LoadImage(f) ==
    /\ nloads < MaxLoads
    /\ Work + 2 <= MaxWork
    /\ LoadImageEffect(f)
    /\ last' = Last("loadImage", ~destroyed /\ Files[f].type = "image",
                    NoPoint, One, <<0, 0>>, f, NULL, FALSE)
    /\ UNCHANGED <<app, options, box, destroyed, containerRect, frameRect, steps>>

(* reader.onload of load r: it assigns the data to this.image.src, the     *)
(* element current now; with this.image null the assignment throws.        *)
ReaderOnload(r) ==
    /\ r \in readers
    /\ readers' = readers \ {r}
    /\ IF image = 0
       THEN UNCHANGED elems
       ELSE elems' = [elems EXCEPT ![image] =
                        [@ EXCEPT !.src = loadFile[r], !.state = "loading"]]
    /\ last' = Last("reader.onload", image # 0, NoPoint, One, <<0, 0>>, r,
                    NULL, image = 0)
    /\ UNCHANGED <<app, options, box, destroyed, containerRect, frameRect, image,
                   imageLoaded, scale, offsetX, offsetY, dragStart, listeners,
                   inDom, loadFile, promises, nloads, steps>>

Settle(p, e, outcome) ==
    [p EXCEPT ![e] = IF @ = "pending" THEN outcome ELSE @]

(* reader.onerror of load r: rejects the promise of load r.                *)
ReaderOnerrorEffect(r) ==
    /\ r \in readers
    /\ readers' = readers \ {r}
    /\ promises' = Settle(promises, r, "rejected")
    /\ last' = Last("reader.onerror", TRUE, NoPoint, One, <<0, 0>>, r, NULL,
                    FALSE)
    /\ UNCHANGED <<options, box, destroyed, containerRect, frameRect, image,
                   imageLoaded, scale, offsetX, offsetY, dragStart, listeners,
                   inDom, elems, loadFile, nloads, steps>>

(* reader.onerror of a load whose promise nothing awaits.                  *)
ReaderOnerror(r) ==
    /\ ReaderOnerrorEffect(r)
    /\ UNCHANGED app

(* The listeners setupEventListeners() leaves attached.                    *)
SetupListeners == {"mousedown", "wheel", "touchstart"}

(* removeEventListeners(), a public method: every handler is detached,     *)
(* those on the document included; dragStart is not touched. After         *)
(* destroy() its first statement dereferences the null container and       *)
(* throws.                                                                 *)
RemoveEventListeners ==
    /\ listeners' = IF destroyed THEN listeners ELSE {}
    /\ Count(Last("removeEventListeners", ~destroyed, NoPoint, One, <<0, 0>>,
                  0, NULL, destroyed))
    /\ UNCHANGED <<app, options, box, destroyed, containerRect, frameRect,
                   image, imageLoaded, scale, offsetX, offsetY, dragStart,
                   inDom, elems, readers, loadFile, promises, nloads>>

(* setupEventListeners(), a public method: removeEventListeners(), then    *)
(* the three container listeners, whether an image is loaded or not.       *)
SetupEventListeners ==
    /\ listeners' = IF destroyed THEN listeners ELSE SetupListeners
    /\ Count(Last("setupEventListeners", ~destroyed, NoPoint, One, <<0, 0>>,
                  0, NULL, destroyed))
    /\ UNCHANGED <<app, options, box, destroyed, containerRect, frameRect,
                   image, imageLoaded, scale, offsetX, offsetY, dragStart,
                   inDom, elems, readers, loadFile, promises, nloads>>

(* Element e finishes decoding its src and its onload runs. The handler    *)
(* inserts this.image, the element current now: with the container or      *)
(* this.image null that call throws and nothing else runs.                 *)
ImageOnload(e) ==
    /\ elems[e].state = "loading"
    /\ Files[elems[e].src].ok
    /\ elems' = [elems EXCEPT ![e] =
                   [@ EXCEPT !.state = "loaded", !.shown = elems[e].src]]
    /\ IF destroyed \/ image = 0
       THEN UNCHANGED <<containerRect, frameRect, imageLoaded, scale, offsetX,
                        offsetY, listeners, inDom, promises>>
       ELSE /\ inDom' = inDom \cup {image}
            /\ imageLoaded' = TRUE
            /\ UpdateCropFrameEffect
            /\ SetView(IF frameRect' = NULL THEN view
                       ELSE ResetViewOf(
                              IF elems'[image].shown = 0 THEN 0
                              ELSE Files[elems'[image].shown].w,
                              IF elems'[image].shown = 0 THEN 0
                              ELSE Files[elems'[image].shown].h,
                              Val(frameRect')))
            /\ listeners' = SetupListeners
            /\ promises' = Settle(promises, e, "resolved")
    /\ last' = Last("image.onload", ~destroyed /\ image # 0, NoPoint, One,
                    <<0, 0>>, e, NULL, destroyed \/ image = 0)
    /\ UNCHANGED <<app, options, box, destroyed, image, dragStart, readers,
                   loadFile, nloads, steps>>

(* Element e fails to decode its src and its onerror runs: clear(), then   *)
(* the promise of load e is rejected; after destroy() clear() throws.      *)
ImageOnerrorEffect(e) ==
    /\ elems[e].state = "loading"
    /\ ~Files[elems[e].src].ok
    /\ elems' = [elems EXCEPT ![e] = [@ EXCEPT !.state = "broken", !.shown = 0]]
    /\ IF destroyed
       THEN UNCHANGED <<listeners, inDom, image, imageLoaded, scale, offsetX,
                        offsetY, dragStart, promises>>
       ELSE /\ listeners' = {}
            /\ inDom' = inDom \ {image}
            /\ image' = 0
            /\ imageLoaded' = FALSE
            /\ SetView(DefaultView)
            /\ dragStart' = NULL
            /\ promises' = Settle(promises, e, "rejected")
    /\ last' = Last("image.onerror", ~destroyed, NoPoint, One, <<0, 0>>, e,
                    NULL, destroyed)
    /\ UNCHANGED <<options, box, destroyed, containerRect, frameRect, readers,
                   loadFile, nloads, steps>>

(* image.onerror of a load whose promise nothing awaits.                   *)
ImageOnerror(e) ==
    /\ ImageOnerrorEffect(e)
    /\ UNCHANGED app

-----------------------------------------------------------------------------

Next ==
    \/ \E b \in ContainerBoxes : Resize(b)
    \/ UpdateCropFrame
    \/ ResetView
    \/ \E c \in ZoomCalls : ZoomAtPoint(c[1], c[2])
    \/ ZoomIn
    \/ ZoomOut
    \/ \E w \in WheelEvents : HandleWheel(w[1], w[2])
    \/ \E d \in PanDeltas : PanImage(d)
    \/ \E m \in MouseDowns : HandleMouseDown(m[1], m[2])
    \/ \E p \in Points : HandleMouseMove(p)
    \/ HandleMouseUp
    \/ \E t \in TouchStarts : HandleTouchStart(t[1], t[2])
    \/ \E t \in TouchMoves : HandleTouchMove(t[1], t[2])
    \/ HandleTouchEnd
    \/ \E c \in CropCalls : GetCroppedImage(c[1], c[2])
    \/ SetupEventListeners
    \/ RemoveEventListeners
    \/ Clear
    \/ Destroy
    \/ \E f \in FileIds : LoadImage(f)
    \/ \E r \in LoadIds : ReaderOnload(r)
    \/ \E r \in LoadIds : ReaderOnerror(r)
    \/ \E e \in LoadIds : ImageOnload(e)
    \/ \E e \in LoadIds : ImageOnerror(e)

Spec == Init /\ [][Next]_vars

(* Element e is decoding a src that decodes: its onload is enabled.         *)
Decodes(e) == elems[e].state = "loading" /\ Files[elems[e].src].ok

(* Every file read that was started ends in reader.onload or               *)
(* reader.onerror, and every decode that was started ends in the           *)
(* element's onload or onerror: weak fairness of each callback. For the    *)
(* onload handler the condition is spelled out, Decodes(r) being its       *)
(* enabling condition.                                                     *)
CallbacksRun ==
    \A r \in LoadIds :
        /\ WF_vars(ReaderOnload(r) \/ ReaderOnerror(r))
        /\ WF_vars(ImageOnerror(r))
        /\ ([]<>~Decodes(r)) \/ ([]<><<ImageOnload(r)>>_vars)

(* Loading alone: loadImage calls, the callbacks of their reads and        *)
(* decodes, and clear().                                                   *)
NextLoads ==
    \/ \E f \in FileIds : LoadImage(f)
    \/ \E r \in LoadIds : ReaderOnload(r)
    \/ \E r \in LoadIds : ReaderOnerror(r)
    \/ \E e \in LoadIds : ImageOnload(e)
    \/ \E e \in LoadIds : ImageOnerror(e)
    \/ Clear

SpecLoads == Init /\ [][NextLoads]_vars /\ CallbacksRun

-----------------------------------------------------------------------------
(* The frame geometry on a wider range of containers and aspect ratios:    *)
(* the constructor and updateCropFrame alone, under resizes.               *)

FrameWidths == {0, 1, 3, 100, 1000}
FrameHeights == {0, 1, 7, 100, 800}

FrameBoxes ==
    { [left |-> 0, top |-> 0, w |-> cw, h |-> ch] :
        cw \in FrameWidths, ch \in FrameHeights }

FrameConfigs ==
    { [DefaultOptions EXCEPT !.aspectRatio = a] :
        a \in { Q(17, 22), Q(3, 2), One, Q(1, 4), R(4) } }

InitFrame ==
    /\ options \in FrameConfigs
    /\ box \in FrameBoxes
    /\ destroyed = FALSE
    /\ containerRect = Some([left |-> box.left, top |-> box.top])
    /\ frameRect = ComputeFrame(box.w, box.h, options.aspectRatio)
    /\ image = 0
    /\ imageLoaded = FALSE
    /\ scale = One
    /\ offsetX = Zero
    /\ offsetY = Zero
    /\ dragStart = NULL
    /\ listeners = {}
    /\ inDom = {}
    /\ elems = [e \in LoadIds |-> NoElem]
    /\ readers = {}
    /\ loadFile = [e \in LoadIds |-> 0]
    /\ promises = [e \in LoadIds |-> "none"]
    /\ nloads = 0
    /\ steps = 0
    /\ last = [op |-> "constructor", hit |-> TRUE, view |-> DefaultView,
               drag |-> NULL, pt |-> NoPoint, factor |-> One,
               client |-> <<0, 0>>, n |-> 0, ret |-> NULL, threw |-> FALSE,
               drew |-> FALSE, grab |-> One]
    /\ app = NoApp

NextFrame ==
    \/ \E b \in FrameBoxes : Resize(b)
    \/ UpdateCropFrame

SpecFrame == InitFrame /\ [][NextFrame]_vars

-----------------------------------------------------------------------------
(* Construction with any options: the constructor merges what it is given  *)
(* over its defaults. Loading, panning and resetView on such engines.      *)

AnyConfigs ==
    { DefaultOptions,
      [DefaultOptions EXCEPT !.aspectRatio = Zero],
      [DefaultOptions EXCEPT !.aspectRatio = R(-1)],
      [DefaultOptions EXCEPT !.minZoom = Zero],
      [DefaultOptions EXCEPT !.maxZoom = Q(1, 20)],
      [DefaultOptions EXCEPT !.zoomStep = R(-1)] }

InitConfig ==
    /\ options \in AnyConfigs
    /\ box = InitialBox
    /\ destroyed = FALSE
    /\ containerRect = Some([left |-> box.left, top |-> box.top])
    /\ frameRect = ComputeFrame(box.w, box.h, options.aspectRatio)
    /\ image = 0
    /\ imageLoaded = FALSE
    /\ scale = One
    /\ offsetX = Zero
    /\ offsetY = Zero
    /\ dragStart = NULL
    /\ listeners = {}
    /\ inDom = {}
    /\ elems = [e \in LoadIds |-> NoElem]
    /\ readers = {}
    /\ loadFile = [e \in LoadIds |-> 0]
    /\ promises = [e \in LoadIds |-> "none"]
    /\ nloads = 0
    /\ steps = 0
    /\ last = [op |-> "constructor", hit |-> TRUE, view |-> DefaultView,
               drag |-> NULL, pt |-> NoPoint, factor |-> One,
               client |-> <<0, 0>>, n |-> 0, ret |-> NULL, threw |-> FALSE,
               drew |-> FALSE, grab |-> One]
    /\ app = NoApp

NextConfig ==
    \/ \E b \in ContainerBoxes : Resize(b)
    \/ UpdateCropFrame
    \/ ResetView
    \/ \E d \in PanDeltas : PanImage(d)
    \/ \E f \in FileIds : LoadImage(f)
    \/ \E r \in LoadIds : ReaderOnload(r)
    \/ \E e \in LoadIds : ImageOnload(e)

SpecConfig == InitConfig /\ [][NextConfig]_vars

-----------------------------------------------------------------------------
(* quickcropApp (app.js) around one cropper built with the default         *)
(* options: the files selected, the index of the current one, the download *)
(* links saveImage has clicked, and the continuations of its async methods *)
(* (what follows an await) that have not run yet.                          *)

(* The lists handed to loadSelectedImages: images that decode, a list      *)
(* whose first file does not decode, one whose first file is no image,     *)
(* and the empty list.                                                     *)
SelectedLists == { <<1, 2>>, <<2>>, <<3, 1>>, <<4, 1>>, <<>> }

(* The containers the app's cropper can be built in: the page laid out,    *)
(* or the editor element without height.                                   *)
AppBoxes == { InitialBox, [left |-> 0, top |-> 0, w |-> 300, h |-> 0] }

(* The pans of the four arrow keys.                                        *)
AppPans == { <<0, -10>>, <<0, 10>>, <<-10, 0>>, <<10, 0>> }

(* The width getCroppedImage() takes by default.                           *)
DefaultOutputWidth == R(850)

(* The guard of saveCropAndMoveNext, loadCurrentImage and handleKeyDown.   *)
ValidIndex ==
    /\ app.currentImageIndex >= 0
    /\ app.currentImageIndex < Len(app.imageFiles)

(* A continuation waiting in the microtask queue: the catch block of       *)
(* loadCurrentImage, one job after the promise it awaits is rejected; or   *)
(* what follows the await of saveCropAndMoveNext, three jobs after the     *)
(* call (saveImage is an async function returning Promise.resolve()), with *)
(* the croppedImageData of that call.                                      *)
CatchJob == [kind |-> "catch", ticks |-> 1, data |-> NULL]
ThenJob(imageData) == [kind |-> "then", ticks |-> 3, data |-> imageData]

(* The microtask queue brought to its next continuation: a job that is not *)
(* yet the continuation itself queues its successor behind the others.     *)
RECURSIVE Advance(_)
Advance(q) ==
    IF q = <<>> \/ Head(q).ticks = 1 THEN q
    ELSE Advance(Append(Tail(q), [Head(q) EXCEPT !.ticks = @ - 1]))

(* The app state a as a handler or continuation leaves it: the microtask   *)
(* checkpoint in progress, if any, is over once the queue is empty.        *)
Checkpoint(a) == [a EXCEPT !.settling = @ /\ a.jobs # <<>>]

(* The app state a after the promise of the load just started is known:    *)
(* if loadImage rejected it at once the catch of loadCurrentImage waits.   *)
Awaiting(a, f) ==
    IF destroyed \/ Files[f].type # "image"
    THEN [a EXCEPT !.jobs = Append(@, CatchJob)]
    ELSE a

(* loadCurrentImage() on the app state a: nothing with the index out of    *)
(* range, else loadImage of the current file, awaited.                     *)
LoadCurrentEffect(a) ==
    IF a.currentImageIndex < 0 \/ a.currentImageIndex >= Len(a.imageFiles)
    THEN /\ app' = Checkpoint(a)
         /\ UNCHANGED <<ClearVars, elems, readers, loadFile, promises, nloads>>
    ELSE /\ nloads < MaxLoads
         /\ LoadImageEffect(a.imageFiles[a.currentImageIndex + 1])
         /\ app' = Checkpoint(
                       Awaiting(a, a.imageFiles[a.currentImageIndex + 1]))

(* resetApp() on the app state a.                                          *)
ResetAppEffect(a) ==
    /\ app' = Checkpoint(
                  [a EXCEPT !.imageFiles = <<>>, !.currentImageIndex = -1])
    /\ ClearEffect
    /\ UNCHANGED <<elems, readers, loadFile, promises, nloads>>

(* moveToNextImage() on the app state a: the next file is loaded, or after *)
(* the last one resetApp() empties the list and clears the cropper.        *)
MoveToNextEffect(a) ==
    IF a.currentImageIndex < Len(a.imageFiles) - 1
    THEN LoadCurrentEffect([a EXCEPT !.currentImageIndex = @ + 1])
    ELSE ResetAppEffect(a)

(* saveImage(imageData, ...) clicking a link whose href is imageData.      *)
SaveImage(a, imageData) == [a EXCEPT !.downloads = Append(@, imageData)]

(* saveCropAndMoveNext() up to its await: getCroppedImage(), saveImage()   *)
(* of what it returned; the rest of the method waits for the promise of    *)
(* saveImage. fails is as for getCroppedImage.                             *)
SaveCropAndMoveNext(fails) ==
    /\ app' = IF ValidIndex
              THEN [SaveImage(app, CropResult(DefaultOutputWidth, fails))
                      EXCEPT !.jobs = Append(@,
                          ThenJob(CropResult(DefaultOutputWidth, fails)))]
              ELSE app
    /\ Count(IF ValidIndex
             THEN Last("saveCropAndMoveNext", TRUE, NoPoint,
                       DefaultOutputWidth, <<0, 0>>, app.currentImageIndex,
                       CropResult(DefaultOutputWidth, fails), FALSE)
             ELSE Miss("saveCropAndMoveNext"))
    /\ UNCHANGED <<options, box, destroyed, containerRect, frameRect,
                   ClearVars, elems, readers, loadFile, promises, nloads>>

(* moveToNextImage(), as the skip button and the space key call it.        *)
MoveToNextImage ==
    /\ MoveToNextEffect(app)
    /\ Count(Last("moveToNextImage", TRUE, NoPoint, One, <<0, 0>>,
                  app.currentImageIndex, NULL, FALSE))
    /\ UNCHANGED <<options, box, destroyed, containerRect, frameRect>>

(* resetApp().                                                             *)
ResetApp ==
    /\ ResetAppEffect(app)
    /\ Count(Last("resetApp", TRUE, NoPoint, One, <<0, 0>>,
                  app.currentImageIndex, NULL, FALSE))
    /\ UNCHANGED <<options, box, destroyed, containerRect, frameRect>>

(* loadCurrentImage().                                                     *)
LoadCurrentImage ==
    /\ LoadCurrentEffect(app)
    /\ Count(Last("loadCurrentImage", ValidIndex, NoPoint, One, <<0, 0>>,
                  app.currentImageIndex, NULL, FALSE))
    /\ UNCHANGED <<options, box, destroyed, containerRect, frameRect>>

(* loadSelectedImages(files): with an empty list an alert and nothing      *)
(* else; otherwise the list is stored, the index set to 0 and the first    *)
(* file loaded.                                                            *)
LoadSelectedImages(files) ==
    /\ IF files = <<>>
       THEN UNCHANGED <<app, ClearVars, elems, readers, loadFile, promises,
                        nloads>>
       ELSE /\ Work + 2 <= MaxWork
            /\ LoadCurrentEffect([app EXCEPT !.imageFiles = files,
                                             !.currentImageIndex = 0])
    /\ last' = Last("loadSelectedImages", files # <<>>, NoPoint, One,
                    <<0, 0>>, Len(files), NULL, FALSE)
    /\ UNCHANGED <<options, box, destroyed, containerRect, frameRect, steps>>

(* The next continuation of the microtask queue runs: after the await of   *)
(* saveCropAndMoveNext, moveToNextImage(); in the catch of                 *)
(* loadCurrentImage, an alert and moveToNextImage(). Each sees the index   *)
(* as it is now.                                                           *)
RunMicrotask ==
    /\ app.jobs # <<>>
    /\ MoveToNextEffect([app EXCEPT !.jobs = Tail(Advance(app.jobs)),
                                    !.settling = TRUE])
    /\ last' = Last(IF Head(Advance(app.jobs)).kind = "then"
                    THEN "saveCropAndMoveNext.then"
                    ELSE "loadCurrentImage.catch",
                    TRUE, NoPoint, One, <<0, 0>>, app.currentImageIndex,
                    Head(Advance(app.jobs)).data, FALSE)
    /\ UNCHANGED <<options, box, destroyed, containerRect, frameRect, steps>>

(* No continuation is waiting: the browser runs the next task.             *)
Settled == app.jobs = <<>>

(* reader.onerror of load r in the app: the catch of the loadCurrentImage  *)
(* awaiting the promise of load r follows.                                 *)
AppReaderOnerror(r) ==
    /\ ReaderOnerrorEffect(r)
    /\ app' = IF promises[r] = "pending"
              THEN [app EXCEPT !.jobs = Append(@, CatchJob), !.settling = TRUE]
              ELSE app

(* image.onerror of element e in the app, likewise.                        *)
AppImageOnerror(e) ==
    /\ ImageOnerrorEffect(e)
    /\ app' = IF promises[e] = "pending" /\ ~destroyed
              THEN [app EXCEPT !.jobs = Append(@, CatchJob), !.settling = TRUE]
              ELSE app

InitApp ==
    /\ options = DefaultOptions
    /\ box \in AppBoxes
    /\ destroyed = FALSE
    /\ containerRect = Some([left |-> box.left, top |-> box.top])
    /\ frameRect = ComputeFrame(box.w, box.h, options.aspectRatio)
    /\ image = 0
    /\ imageLoaded = FALSE
    /\ scale = One
    /\ offsetX = Zero
    /\ offsetY = Zero
    /\ dragStart = NULL
    /\ listeners = {}
    /\ inDom = {}
    /\ elems = [e \in LoadIds |-> NoElem]
    /\ readers = {}
    /\ loadFile = [e \in LoadIds |-> 0]
    /\ promises = [e \in LoadIds |-> "none"]
    /\ nloads = 0
    /\ steps = 0
    /\ last = [op |-> "constructor", hit |-> TRUE, view |-> DefaultView,
               drag |-> NULL, pt |-> NoPoint, factor |-> One,
               client |-> <<0, 0>>, n |-> 0, ret |-> NULL, threw |-> FALSE,
               drew |-> FALSE, grab |-> One]
    /\ app = NoApp

(* No microtask checkpoint is in progress: a task can make calls and       *)
(* dispatch events, one after the other, before the continuations they     *)
(* leave run.                                                              *)
InTask == ~app.settling

(* The callbacks of reads and decodes are tasks of their own: the browser  *)
(* runs them with the microtask queue empty.                               *)
NextApp ==
    \/ \E files \in SelectedLists : InTask /\ LoadSelectedImages(files)
    \/ \E fails \in BOOLEAN : InTask /\ SaveCropAndMoveNext(fails)
    \/ InTask /\ MoveToNextImage
    \/ InTask /\ ResetApp
    \/ InTask /\ LoadCurrentImage
    \/ InTask /\ ZoomIn
    \/ InTask /\ ZoomOut
    \/ InTask /\ ResetView
    \/ \E d \in AppPans : InTask /\ PanImage(d)
    \/ \E b \in AppBoxes : InTask /\ Resize(b)
    \/ \E w \in WheelEvents : InTask /\ HandleWheel(w[1], w[2])
    \/ \E m \in MouseDowns : InTask /\ HandleMouseDown(m[1], m[2])
    \/ \E p \in Points : InTask /\ HandleMouseMove(p)
    \/ InTask /\ HandleMouseUp
    \/ \E t \in TouchStarts : InTask /\ HandleTouchStart(t[1], t[2])
    \/ \E t \in TouchMoves : InTask /\ HandleTouchMove(t[1], t[2])
    \/ InTask /\ HandleTouchEnd
    \/ \E r \in LoadIds : Settled /\ ReaderOnload(r)
    \/ \E r \in LoadIds : Settled /\ AppReaderOnerror(r)
    \/ \E e \in LoadIds : Settled /\ ImageOnload(e)
    \/ \E e \in LoadIds : Settled /\ AppImageOnerror(e)
    \/ RunMicrotask

SpecApp == InitApp /\ [][NextApp]_vars

-----------------------------------------------------------------------------
(* Properties.                                                             *)

(* The call or event last handled was a zoom that ran zoomAtPoint past its *)
(* guards.                                                                 *)
ZoomRan == last.op \in {"zoomAtPoint", "zoomIn", "zoomOut", "wheel"} /\ last.hit

(* The source-image point that was under last.pt before the call.          *)
ImagePointBefore ==
    <<Div(Sub(last.pt[1], last.view.offsetX), last.view.scale),
      Div(Sub(last.pt[2], last.view.offsetY), last.view.scale)>>

(* C1: a zoomAtPoint call that changes scale (clamped or not) keeps the    *)
(* source-image point under its anchor p: offset' + scale' * imagePoint = p *)
(* on the X axis and on the Y axis.                                        *)
ThmZoomKeepsAnchor ==
    (ZoomRan /\ scale # last.view.scale) =>
        /\ Add(offsetX, Mul(scale, ImagePointBefore[1])) = last.pt[1]
        /\ Add(offsetY, Mul(scale, ImagePointBefore[2])) = last.pt[2]

(* A zoomAtPoint call at a pointer position whose new scale was clamped to *)
(* maxZoom, the anchor differing on the two axes.                          *)
WitZoomKeepsAnchor ==
    /\ last.op = "zoomAtPoint"
    /\ last.hit
    /\ scale # last.view.scale
    /\ scale = options.maxZoom
    /\ Mul(last.view.scale, last.factor) # scale
    /\ last.pt[1] # last.pt[2]
    /\ offsetX # last.view.offsetX
    /\ offsetY # last.view.offsetY

InZoomRange == Le(options.minZoom, scale) /\ Le(scale, options.maxZoom)

ValidConfig == Lt(Zero, options.minZoom) /\ Le(options.minZoom, options.maxZoom)

(* C2 as stated: after every zoomAtPoint, zoomIn, zoomOut or wheel call    *)
(* made with an image loaded and a valid config, scale lies in             *)
(* [minZoom, maxZoom].                                                     *)
CexZoomAlwaysInRange ==
    (/\ last.op \in {"zoomAtPoint", "zoomIn", "zoomOut", "wheel"}
     /\ imageLoaded
     /\ ValidConfig) => InZoomRange

(* C2 as amended: after every zoomAtPoint or wheel call made with an image *)
(* loaded, and every zoomIn or zoomOut call made with an image loaded and  *)
(* the frame defined, scale lies in [minZoom, maxZoom], whatever it was    *)
(* before the call.                                                        *)
ThmZoomInRange == (ZoomRan /\ ValidConfig) => InZoomRange

(* zoomIn on a fit scale that lay above maxZoom brought it to maxZoom.     *)
WitZoomInRange ==
    /\ last.op = "zoomIn"
    /\ last.hit
    /\ Lt(options.maxZoom, last.view.scale)
    /\ scale = options.maxZoom

(* resetView has just run past its guards, called directly or from the     *)
(* onload handler, on an image and a frame of positive dimensions.         *)
ResetRan ==
    /\ \/ last.op = "resetView" /\ last.hit
       \/ last.op = "image.onload" /\ last.hit
    /\ imageLoaded
    /\ image # 0
    /\ frameRect # NULL
    /\ NaturalWidth(image) > 0
    /\ NaturalHeight(image) > 0
    /\ Lt(Zero, Val(frameRect).width)
    /\ Lt(Zero, Val(frameRect).height)

ImgW == R(NaturalWidth(image))
ImgH == R(NaturalHeight(image))
Frame == Val(frameRect)

(* C3 as stated: after resetView the whole scaled image lies inside the    *)
(* frame, scale*imageWidth <= frame.width and scale*imageHeight <=         *)
(* frame.height, with equality on at least one axis.                       *)
CexResetFitsInside ==
    ResetRan =>
        /\ Le(Mul(scale, ImgW), Frame.width)
        /\ Le(Mul(scale, ImgH), Frame.height)
        /\ \/ Mul(scale, ImgW) = Frame.width
           \/ Mul(scale, ImgH) = Frame.height

(* C4: resetView stores frame.height/imageHeight when imageWidth/          *)
(* imageHeight > frame.width/frame.height and frame.width/imageWidth       *)
(* otherwise, unclamped; a 2000x1000 image in the 8.5/11 frame of a        *)
(* 1000x800 container gets scale 0.72.                                     *)
ThmResetScale ==
    ResetRan =>
        /\ IF Lt(Div(Frame.width, Frame.height), Div(ImgW, ImgH))
           THEN Mul(scale, ImgH) = Frame.height
           ELSE Mul(scale, ImgW) = Frame.width
        /\ (/\ options.aspectRatio = Q(17, 22)
            /\ Frame.height = R(720)
            /\ NaturalWidth(image) = 2000
            /\ NaturalHeight(image) = 1000) => scale = Q(18, 25)

(* resetView left a scale above maxZoom, bound on the frame's width.       *)
WitResetScale ==
    /\ ResetRan
    /\ Lt(options.maxZoom, scale)
    /\ Mul(scale, ImgW) = Frame.width
    /\ Mul(scale, ImgH) # Frame.height

(* C5: after resetView the centre of the scaled image is the centre of the *)
(* frame on both axes.                                                     *)
ThmResetCentred ==
    ResetRan =>
        /\ Add(offsetX, Div(Mul(scale, ImgW), Two))
             = Add(Frame.left, Div(Frame.width, Two))
        /\ Add(offsetY, Div(Mul(scale, ImgH), Two))
             = Add(Frame.top, Div(Frame.height, Two))

(* resetView ran after the view had been moved off centre, on an image     *)
(* whose scaled size differs from the frame's.                             *)
WitResetCentred ==
    /\ ResetRan
    /\ last.op = "resetView"
    /\ last.view.offsetX # offsetX
    /\ Mul(scale, ImgW) # Frame.width

(* The frame has just been computed from the container's current size, by *)
(* the constructor, updateCropFrame or the onload handler.                 *)
FrameFresh ==
    /\ last.op \in {"constructor", "updateCropFrame", "image.onload"}
    /\ last.hit
    /\ frameRect # NULL

AvailW == Mul(R(box.w), AvailableShare)
AvailH == Mul(R(box.h), AvailableShare)

(* C6: for positive container width W, height H and aspectRatio the frame  *)
(* has width/height = aspectRatio, width <= 0.9*W, height <= 0.9*H, and is *)
(* centred: left = W - right and top = H - bottom.                         *)
ThmFrameShape ==
    FrameFresh =>
        /\ box.w > 0 /\ box.h > 0
        /\ Div(Frame.width, Frame.height) = options.aspectRatio
        /\ Le(Frame.width, AvailW)
        /\ Le(Frame.height, AvailH)
        /\ Frame.left = Sub(R(box.w), Frame.right)
        /\ Frame.top = Sub(R(box.h), Frame.bottom)

(* updateCropFrame computed a frame after a resize, with margin left over  *)
(* on the X axis beyond the 10%.                                           *)
WitFrameShape ==
    /\ FrameFresh
    /\ last.op = "updateCropFrame"
    /\ Lt(Frame.width, AvailW)
    /\ Frame.height = AvailH
    /\ Lt(Zero, Frame.left)

(* C7: the frame is the largest rectangle of the aspect ratio inside the   *)
(* 90% area: its height is 0.9*H when 0.9*W/(0.9*H) > aspectRatio and its  *)
(* width is 0.9*W otherwise, so its width is the smaller of 0.9*W and      *)
(* 0.9*H*aspectRatio; 1000x800 with ratio 8.5/11 gives height 720, top 40. *)
ThmFrameLargest ==
    FrameFresh =>
        /\ IF Lt(options.aspectRatio, Div(AvailW, AvailH))
           THEN Frame.height = AvailH
           ELSE Frame.width = AvailW
        /\ Frame.width = MathMin(AvailW, Mul(AvailH, options.aspectRatio))
        /\ Frame.height = MathMin(AvailH, Div(AvailW, options.aspectRatio))
        /\ (box.w = 1000 /\ box.h = 800 /\ options.aspectRatio = Q(17, 22))
             => (Frame.height = R(720) /\ Frame.top = R(40))

(* updateCropFrame recomputed the frame of the example after a resize:     *)
(* 1000x800, ratio 8.5/11, height 720, top 40.                             *)
WitFrameLargest ==
    /\ FrameFresh
    /\ last.op = "updateCropFrame"
    /\ steps > 1
    /\ box.w = 1000 /\ box.h = 800
    /\ options.aspectRatio = Q(17, 22)
    /\ Frame.height = R(720)
    /\ Frame.width = Q(6120, 11)
    /\ Frame.left = Q(2440, 11)

(* C8: the source rectangle getCroppedImage draws is the frame mapped back *)
(* through the view: sourceX = (frame.left - offsetX)/scale, sourceY =      *)
(* (frame.top - offsetY)/scale, sourceW = frame.width/scale, sourceH =      *)
(* frame.height/scale, so offset + scale*(source corner) is the frame's    *)
(* corner for all four corners.                                            *)
ThmSourceRect ==
    (last.op = "getCroppedImage" /\ last.ret # NULL) =>
        LET src == Val(last.ret).source
            x1 == Add(offsetX, Mul(scale, src.sourceX))
            y1 == Add(offsetY, Mul(scale, src.sourceY))
            x2 == Add(offsetX, Mul(scale, Add(src.sourceX, src.sourceWidth)))
            y2 == Add(offsetY, Mul(scale, Add(src.sourceY, src.sourceHeight)))
        IN  /\ src.sourceX = Div(Sub(Frame.left, offsetX), scale)
            /\ src.sourceY = Div(Sub(Frame.top, offsetY), scale)
            /\ src.sourceWidth = Div(Frame.width, scale)
            /\ src.sourceHeight = Div(Frame.height, scale)
            /\ x1 = Frame.left /\ y1 = Frame.top
            /\ x2 = Frame.right /\ y2 = Frame.bottom

(* getCroppedImage returned data for a view moved by a zoom or a pan, with *)
(* a scale other than 1 and the frame's corner off the image's corner.     *)
WitSourceRect ==
    /\ last.op = "getCroppedImage"
    /\ last.ret # NULL
    /\ scale # One
    /\ Val(last.ret).source.sourceX # Zero
    /\ Val(last.ret).source.sourceY # Zero
    /\ steps >= 2

(* C9 as stated: a drag-start (mouse down or single-finger touch start)    *)
(* that arrives while a drag session is active is ignored, the session's   *)
(* start pointer position and start offset staying as they were.           *)
CexDragStartIgnored ==
    (/\ last.op \in {"mousedown", "touchstart"}
     /\ last.hit
     /\ last.drag # NULL) => dragStart = last.drag

(* The displacement of the pointer of the last move from the start         *)
(* position of the session it found.                                       *)
MoveDx == last.client[1] - Val(last.drag).x
MoveDy == last.client[2] - Val(last.drag).y

MovedByDisplacement ==
    /\ offsetX = Add(Val(last.drag).offsetX, R(MoveDx))
    /\ offsetY = Add(Val(last.drag).offsetY, R(MoveDy))
    /\ scale = last.view.scale

(* C10 as stated: during a drag session every mouse move and every touch   *)
(* move sets offset to the start offset plus the pointer's displacement    *)
(* from the start position, and leaves scale unchanged.                    *)
CexEveryMoveDrags ==
    (/\ last.op \in {"mousemove", "touchmove"}
     /\ last.drag # NULL) => MovedByDisplacement

(* C10 as amended: during a drag session every mouse move and every touch  *)
(* move with exactly one touch sets offset to the start offset plus the    *)
(* pointer's displacement, whatever the scale, and leaves scale unchanged. *)
ThmMoveDrags ==
    (/\ last.op \in {"mousemove", "touchmove"}
     /\ last.drag # NULL
     /\ last.hit) => MovedByDisplacement

(* A mouse move by (50, -30) from the start position, at a scale other     *)
(* than 1.                                                                 *)
WitMoveDrags ==
    /\ last.op = "mousemove"
    /\ last.hit
    /\ MoveDx = 50 /\ MoveDy = -30
    /\ scale # One
    /\ offsetX = Add(Val(last.drag).offsetX, R(50))
    /\ offsetY = Add(Val(last.drag).offsetY, R(-30))

-----------------------------------------------------------------------------
(* Loads that overlap.                                                     *)

(* Two loads of decodable image files were started and nothing else was    *)
(* called; the first load's file data never reached the first element, so  *)
(* its read was still pending when the second load began; no read failed;  *)
(* every callback has run.                                                 *)
OverlappedLoadsDone ==
    /\ nloads = 2
    /\ steps = 0
    /\ \A r \in 1..nloads :
         /\ Files[loadFile[r]].type = "image"
         /\ Files[loadFile[r]].ok
         /\ promises[r] # "rejected"
         /\ elems[r].state # "loading"
    /\ elems[1].state = "none"
    /\ readers = {}

(* C11 as stated: when loadImage(B) is called while loadImage(A) is        *)
(* pending, then once all callbacks have run, in whatever order, the image *)
(* shown and extracted is B's and the view is the fit-to-frame of B.       *)
CexLastLoadWins ==
    OverlappedLoadsDone =>
        /\ imageLoaded
        /\ image = 2
        /\ elems[2].shown = loadFile[2]
        /\ frameRect # NULL =>
             view = ResetViewOf(Files[loadFile[2]].w, Files[loadFile[2]].h,
                                Val(frameRect))

(* C12 as stated: once loadImage(B) has made B's element current, a late   *)
(* success, read error or decode error of the earlier load A does not      *)
(* clear B's image, reset the view, set imageLoaded or attach listeners.   *)
CexSupersededInert ==
    [][ (/\ nloads = 2
         /\ image = 2
         /\ last'.op \in {"reader.onload", "reader.onerror", "image.onload",
                          "image.onerror"}
         /\ last'.n = 1)
        => /\ image' = image
           /\ imageLoaded' = imageLoaded
           /\ scale' = scale
           /\ offsetX' = offsetX
           /\ offsetY' = offsetY
           /\ listeners' = listeners ]_vars

(* C13 as stated: a loadImage call leaves no image loaded or attached,     *)
(* scale 1, offset (0, 0) and no drag session; when a load succeeds (the   *)
(* onload of its element has run, which resolves its promise) the current  *)
(* element is that load's, it shows the file given to that load, and the   *)
(* view is the fit-to-frame result for that file; at most one image        *)
(* element is attached at any time.                                        *)
CexLoadResets ==
    /\ last.op = "loadImage" =>
         /\ ~imageLoaded
         /\ scale = One /\ offsetX = Zero /\ offsetY = Zero
         /\ dragStart = NULL
         /\ inDom = {}
    /\ (last.op = "image.onload" /\ last.hit) =>
         /\ imageLoaded
         /\ image = last.n
         /\ elems[image].shown = loadFile[last.n]
         /\ frameRect # NULL =>
              view = ResetViewOf(Files[loadFile[last.n]].w,
                                 Files[loadFile[last.n]].h, Val(frameRect))
    /\ Cardinality(inDom) <= 1

-----------------------------------------------------------------------------
(* Zoom at the limits and zoom steps.                                      *)

(* The image point under the anchor before the call is under it after.     *)
AnchorKept ==
    /\ Add(offsetX, Mul(scale, ImagePointBefore[1])) = last.pt[1]
    /\ Add(offsetY, Mul(scale, ImagePointBefore[2])) = last.pt[2]

(* The scale before the call lay strictly inside [minZoom, maxZoom].       *)
WasInside ==
    /\ Lt(options.minZoom, last.view.scale)
    /\ Lt(last.view.scale, options.maxZoom)

(* The scale the call asked for, before clamping.                          *)
Requested == Mul(last.view.scale, last.factor)

(* C14: a zoomAtPoint call made from a scale strictly inside the range     *)
(* whose factor would push scale*factor below minZoom leaves scale equal   *)
(* to minZoom, one that would push it above maxZoom leaves scale equal to  *)
(* maxZoom, and both keep the anchor point stationary.                     *)
ThmZoomClampsToBound ==
    (last.op = "zoomAtPoint" /\ last.hit /\ ValidConfig /\ WasInside) =>
        /\ Lt(Requested, options.minZoom) =>
             (scale = options.minZoom /\ AnchorKept)
        /\ Lt(options.maxZoom, Requested) =>
             (scale = options.maxZoom /\ AnchorKept)

(* zoomAtPoint with a factor below 1 brought a scale from inside the range *)
(* down to minZoom.                                                        *)
WitZoomClampsToBound ==
    /\ last.op = "zoomAtPoint"
    /\ last.hit
    /\ WasInside
    /\ Lt(last.factor, One)
    /\ Lt(Requested, options.minZoom)
    /\ scale = options.minZoom
    /\ offsetX # last.view.offsetX

(* C15: zoomAtPoint called with scale equal to maxZoom and factor > 1, or  *)
(* with scale equal to minZoom and factor < 1, changes neither scale nor   *)
(* offset and does not reach updateImageTransform().                       *)
ThmZoomNoopAtBound ==
    (/\ last.op = "zoomAtPoint"
     /\ last.hit
     /\ \/ last.view.scale = options.maxZoom /\ Lt(One, last.factor)
        \/ last.view.scale = options.minZoom /\ Lt(last.factor, One))
    => (view = last.view /\ ~last.drew)

(* zoomAtPoint with factor 10 was called on an image already at maxZoom    *)
(* and moved off its fitted position.                                      *)
WitZoomNoopAtBound ==
    /\ last.op = "zoomAtPoint"
    /\ last.hit
    /\ last.view.scale = options.maxZoom
    /\ Lt(One, last.factor)
    /\ scale = options.maxZoom
    /\ offsetX # Zero

(* The scale before the call lay in [minZoom, maxZoom].                    *)
WasInRange ==
    /\ Le(options.minZoom, last.view.scale)
    /\ Le(last.view.scale, options.maxZoom)

(* C16 as stated: in every state with an image loaded, also right after a  *)
(* load or resetView, zoomAtPoint with factor 1 changes neither scale nor  *)
(* offset.                                                                 *)
CexZoomUnitIdle ==
    (last.op = "zoomAtPoint" /\ last.hit /\ last.factor = One) =>
        view = last.view

(* C16 as amended: zoomAtPoint with factor 1 changes neither scale nor     *)
(* offset when scale lies in [minZoom, maxZoom]; from a scale outside the  *)
(* range, as resetView can leave it, the call moves scale to the nearer    *)
(* limit and keeps the anchor point stationary.                            *)
ThmZoomUnit ==
    (last.op = "zoomAtPoint" /\ last.hit /\ last.factor = One /\ ValidConfig)
    => /\ WasInRange => (view = last.view /\ ~last.drew)
       /\ Lt(options.maxZoom, last.view.scale) =>
            (scale = options.maxZoom /\ AnchorKept)
       /\ Lt(last.view.scale, options.minZoom) =>
            (scale = options.minZoom /\ AnchorKept)

(* zoomAtPoint with factor 1 was called on a fitted image whose scale lies *)
(* strictly inside the range.                                              *)
WitZoomUnit ==
    /\ last.op = "zoomAtPoint"
    /\ last.hit
    /\ last.factor = One
    /\ WasInside
    /\ last.view.scale # One
    /\ last.view.offsetX # Zero
    /\ last.view.offsetY # Zero

(* zoomIn or zoomOut has just run past its guard.                          *)
ZoomStepRan == last.op \in {"zoomIn", "zoomOut"} /\ last.hit

(* The scale s lies in [minZoom, maxZoom]: a step to it is not clamped.    *)
Unclamped(s) == Le(options.minZoom, s) /\ Le(s, options.maxZoom)

(* C17 as stated: zoomIn multiplies scale by 1 + zoomStep and zoomOut by   *)
(* 1 - zoomStep when unclamped, both anchored at the frame's centre, which *)
(* keeps its image point.                                                  *)
CexZoomStepFactors ==
    ZoomStepRan =>
        /\ (last.op = "zoomIn"
            /\ Unclamped(Mul(last.view.scale, Add(One, options.zoomStep))))
           => scale = Mul(last.view.scale, Add(One, options.zoomStep))
        /\ (last.op = "zoomOut"
            /\ Unclamped(Mul(last.view.scale, Sub(One, options.zoomStep))))
           => scale = Mul(last.view.scale, Sub(One, options.zoomStep))
        /\ last.pt = FrameCentre(Frame)
        /\ AnchorKept

(* C17 as amended: zoomIn is zoomAtPoint with factor 1 + zoomStep and      *)
(* zoomOut is zoomAtPoint with factor 1/(1 + zoomStep), both anchored at   *)
(* the frame's centre: when unclamped zoomIn multiplies scale by           *)
(* 1 + zoomStep and zoomOut divides it by 1 + zoomStep, and the image      *)
(* point at the frame's centre stays there.                                *)
ThmZoomSteps ==
    ZoomStepRan =>
        /\ (last.op = "zoomIn"
            /\ Unclamped(Mul(last.view.scale, Add(One, options.zoomStep))))
           => scale = Mul(last.view.scale, Add(One, options.zoomStep))
        /\ (last.op = "zoomOut"
            /\ Unclamped(Div(last.view.scale, Add(One, options.zoomStep))))
           => scale = Div(last.view.scale, Add(One, options.zoomStep))
        /\ last.pt = FrameCentre(Frame)
        /\ AnchorKept

(* zoomOut took an unclamped step on a fitted image.                       *)
WitZoomSteps ==
    /\ last.op = "zoomOut"
    /\ last.hit
    /\ WasInside
    /\ scale = Div(last.view.scale, Add(One, options.zoomStep))
    /\ scale # Mul(last.view.scale, Sub(One, options.zoomStep))
    /\ Lt(options.minZoom, scale)
    /\ offsetX # last.view.offsetX

-----------------------------------------------------------------------------
(* The cached frame: staleness, the undefined frame, extraction guards.    *)

FrameUsers == {"zoomIn", "zoomOut", "resetView", "getCroppedImage"}

(* C18 as stated: whenever zoomIn, zoomOut, resetView or getCroppedImage   *)
(* runs, the frame it uses is the frame computed from the container's      *)
(* current size and the configured aspect ratio, after any sequence of     *)
(* container resizes.                                                      *)
CexFrameCurrent ==
    (last.op \in FrameUsers /\ last.hit /\ ~destroyed) =>
        frameRect = ComputeFrame(box.w, box.h, options.aspectRatio)

(* C19: updateCropFrame run with container width <= 0 or height <= 0       *)
(* leaves the frame null, and with the frame null zoomIn, zoomOut,         *)
(* resetView and getCroppedImage return at their guard: the view is        *)
(* unchanged, nothing is computed from the frame and nothing is thrown.    *)
ThmNoFrameShortCircuits ==
    /\ (/\ last.op \in {"updateCropFrame", "image.onload"}
        /\ last.hit
        /\ (box.w <= 0 \/ box.h <= 0)) => frameRect = NULL
    /\ (last.op \in FrameUsers /\ frameRect = NULL) =>
         /\ ~last.hit
         /\ view = last.view
         /\ last.ret = NULL
         /\ ~last.threw
         /\ ~last.drew

(* zoomOut was called on a loaded, fitted image after the container had    *)
(* collapsed to zero height and updateCropFrame had dropped the frame.     *)
WitNoFrameShortCircuits ==
    /\ last.op = "zoomOut"
    /\ imageLoaded
    /\ frameRect = NULL
    /\ box.w > 0
    /\ box.h = 0
    /\ scale # One
    /\ offsetX # Zero

(* C20: getCroppedImage returns null, without throwing, whenever no image  *)
(* is loaded or the frame is null; what it returns otherwise is null or a  *)
(* whole image of the canvas size, so it returns image data only with an   *)
(* image loaded and a frame defined; it changes no state.                  *)
ThmCropGuard ==
    last.op = "getCroppedImage" =>
        /\ (~imageLoaded \/ image = 0 \/ frameRect = NULL) =>
             (last.ret = NULL /\ ~last.threw)
        /\ last.ret # NULL =>
             /\ imageLoaded
             /\ image # 0
             /\ frameRect # NULL
             /\ Val(last.ret).canvas =
                  CanvasSize(last.factor, options.aspectRatio)
             /\ Val(last.ret).source = SourceRect(Val(frameRect), view)
        /\ view = last.view

(* getCroppedImage was called with an image loaded and the frame null, and *)
(* returned null.                                                          *)
WitCropGuard ==
    /\ last.op = "getCroppedImage"
    /\ imageLoaded
    /\ image # 0
    /\ frameRect = NULL
    /\ ~destroyed
    /\ last.ret = NULL

-----------------------------------------------------------------------------
(* Extraction, failed loads, clear and pan as effects on the state.        *)

(* C21: getCroppedImage changes no engine state: scale, offset, frame,     *)
(* drag session and loaded image are the same after the call as before it, *)
(* whether it returns data, returns null at its guard, or fails while      *)
(* drawing or encoding.                                                    *)
ThmCropPure ==
    [][ last'.op = "getCroppedImage" =>
          UNCHANGED <<scale, offsetX, offsetY, frameRect, containerRect,
                      dragStart, image, imageLoaded, elems, inDom,
                      listeners>> ]_vars

(* getCroppedImage failed while drawing or encoding, in the middle of a    *)
(* drag on a fitted image.                                                 *)
WitCropPure ==
    /\ last.op = "getCroppedImage"
    /\ last.hit
    /\ last.ret = NULL
    /\ dragStart # NULL
    /\ scale # One
    /\ offsetX # Zero

(* C22 as stated: a loadImage call with a non-image file, made with an     *)
(* image loaded, leaves the loaded image, the view, the drag session and   *)
(* the listeners exactly as they were.                                     *)
CexBadFileTouchesNothing ==
    [][ (/\ last'.op = "loadImage"
         /\ Files[last'.n].type # "image"
         /\ imageLoaded) =>
          UNCHANGED <<image, imageLoaded, scale, offsetX, offsetY, dragStart,
                      listeners, inDom>> ]_vars

(* C23 as stated: after a failed load, by a read error or a decode error,  *)
(* the engine is in the no-image state: image null, imageLoaded false, the *)
(* default view, no drag session and no listeners. Stated for the only     *)
(* load made.                                                              *)
CexFailedLoadClean ==
    (/\ nloads = 1
     /\ last.op \in {"reader.onerror", "image.onerror"}
     /\ ~destroyed)
    => /\ image = 0
       /\ ~imageLoaded
       /\ scale = One /\ offsetX = Zero /\ offsetY = Zero
       /\ dragStart = NULL
       /\ listeners = {}

(* C24 as stated: when clear() or destroy() was called while the only load *)
(* was pending, that load's late read and decode callbacks raise no error  *)
(* and leave no image loaded.                                              *)
CexLateCallbacksQuiet ==
    (/\ nloads = 1
     /\ last.op \in {"reader.onload", "image.onload"}
     /\ last.n = 1
     /\ image = 0)
    => /\ ~last.threw
       /\ ~imageLoaded
       /\ scale = One /\ offsetX = Zero /\ offsetY = Zero

(* C25: resetView run with an image loaded and a frame defined, the image  *)
(* or the frame having a non-positive width or height, leaves scale 1 and  *)
(* offset (0, 0) and throws nothing.                                       *)
ThmResetDegrades ==
    (/\ last.op \in {"resetView", "image.onload"}
     /\ last.hit
     /\ imageLoaded
     /\ image # 0
     /\ frameRect # NULL
     /\ \/ NaturalWidth(image) <= 0
        \/ NaturalHeight(image) <= 0
        \/ Le(Frame.width, Zero)
        \/ Le(Frame.height, Zero))
    => /\ scale = One
       /\ offsetX = Zero
       /\ offsetY = Zero
       /\ ~last.threw

(* resetView was called on a decoded image, panned away from the origin,   *)
(* with a frame of width 0.                                                *)
WitResetDegrades ==
    /\ last.op = "resetView"
    /\ last.hit
    /\ NaturalWidth(image) > 0
    /\ NaturalHeight(image) > 0
    /\ frameRect # NULL
    /\ Frame.width = Zero
    /\ Lt(Zero, Frame.height)
    /\ last.view.offsetY # Zero
    /\ offsetY = Zero

(* C26: with minZoom > 0, scale > 0 in every reachable state.              *)
ThmScalePositive == Lt(Zero, options.minZoom) => Lt(Zero, scale)

(* zoomAtPoint was called with a negative factor and left scale at         *)
(* minZoom.                                                                *)
WitScalePositive ==
    /\ last.op = "zoomAtPoint"
    /\ last.hit
    /\ Lt(last.factor, Zero)
    /\ Lt(options.minZoom, last.view.scale)
    /\ scale = options.minZoom

(* C27: clear() leaves image null, imageLoaded false, scale 1, offset      *)
(* (0, 0), no drag session, no listeners and no image element attached,    *)
(* and leaves the cached frame and container rectangles as they were.      *)
ThmClearResets ==
    [][ last'.op = "clear" =>
          /\ image' = 0
          /\ ~imageLoaded'
          /\ scale' = One /\ offsetX' = Zero /\ offsetY' = Zero
          /\ dragStart' = NULL
          /\ listeners' = {}
          /\ inDom' = {}
          /\ UNCHANGED <<frameRect, containerRect>> ]_vars

(* clear() was called in the middle of a drag on a fitted image.           *)
WitClearResets ==
    /\ last.op = "clear"
    /\ last.hit
    /\ last.drag # NULL
    /\ last.view.scale # One
    /\ last.view.offsetX # Zero
    /\ frameRect # NULL
    /\ image = 0

(* C28: panImage(deltaX, deltaY) with an image loaded adds (deltaX,        *)
(* deltaY) to offset whatever the result, and with no image loaded leaves  *)
(* offset alone; either way scale, frame, drag session and image stay.     *)
ThmPanAdds ==
    [][ last'.op = "panImage" =>
          /\ IF imageLoaded
             THEN /\ offsetX' = Add(offsetX, R(last'.client[1]))
                  /\ offsetY' = Add(offsetY, R(last'.client[2]))
             ELSE UNCHANGED <<offsetX, offsetY>>
          /\ UNCHANGED <<scale, frameRect, dragStart, image, imageLoaded>>
      ]_vars

(* A pan moved a scaled image wholly to the left of the frame.             *)
WitPanAdds ==
    /\ last.op = "panImage"
    /\ last.hit
    /\ frameRect # NULL
    /\ image # 0
    /\ scale # One
    /\ Lt(Add(offsetX, Mul(scale, ImgW)), Frame.left)
    /\ offsetX = Add(last.view.offsetX, R(last.client[1]))

(* n is x rounded to the nearest integer, halves up.                       *)
IsRound(n, x) ==
    /\ Le(Sub(R(n), Q(1, 2)), x)
    /\ Lt(x, Add(R(n), Q(1, 2)))

(* C29: the canvas getCroppedImage encodes is round(outputWidth) wide and  *)
(* round(outputWidth / aspectRatio) high for every positive outputWidth,   *)
(* whatever the scale and offset.                                          *)
ThmCanvasSize ==
    (last.op = "getCroppedImage" /\ last.ret # NULL /\ Lt(Zero, last.factor))
    => /\ IsRound(Val(last.ret).canvas.width, last.factor)
       /\ IsRound(Val(last.ret).canvas.height,
                  Div(last.factor, options.aspectRatio))

(* A crop 850 wide at aspect ratio 1.5, of a zoomed image: 566.67 rounds   *)
(* to 567.                                                                 *)
WitCanvasSize ==
    /\ last.op = "getCroppedImage"
    /\ last.ret # NULL
    /\ last.factor = R(850)
    /\ options.aspectRatio = Q(3, 2)
    /\ Val(last.ret).canvas.height = 567
    /\ scale # One

(* The configuration the specification asks for.                           *)
ConfigOK(opts) ==
    /\ Lt(Zero, opts.aspectRatio)
    /\ Lt(Zero, opts.minZoom)
    /\ Lt(Zero, opts.maxZoom)
    /\ Lt(Zero, opts.zoomStep)
    /\ Le(opts.minZoom, opts.maxZoom)

(* C30 as stated: a configuration with a non-positive aspectRatio,         *)
(* minZoom, maxZoom or zoomStep, or with maxZoom < minZoom, is rejected at *)
(* construction, so every engine that exists has a valid configuration.    *)
CexConfigValidated == ConfigOK(options)


-----------------------------------------------------------------------------
(* The element behind a loaded image.                                      *)

(* C31 as stated: whenever imageLoaded is true the current image element   *)
(* is non-null and has itself finished decoding, so that its natural size  *)
(* is that of a decoded bitmap; and imageLoaded is never set by the onload *)
(* callback of another, superseded element.                                *)
CexLoadedOwnDecode ==
    /\ imageLoaded =>
         /\ image # 0
         /\ elems[image].state = "loaded"
         /\ NaturalWidth(image) > 0
         /\ NaturalHeight(image) > 0
    /\ (last.op = "image.onload" /\ last.hit) => last.n = image


-----------------------------------------------------------------------------
(* Zooming while a drag session is active.                                 *)

(* The source-image point displayed at client position p when the view is  *)
(* v, the container standing at its place on the page.                     *)
ImagePointUnder(p, v) ==
    <<Div(Sub(ContainerPoint(RPt(p), box)[1], v.offsetX), v.scale),
      Div(Sub(ContainerPoint(RPt(p), box)[2], v.offsetY), v.scale)>>

(* The source-image point that was under the pointer when the drag session *)
(* found by the last move began.                                           *)
GrabbedPoint ==
    ImagePointUnder(<<Val(last.drag).x, Val(last.drag).y>>,
                    View(last.grab, Val(last.drag).offsetX,
                         Val(last.drag).offsetY))

(* C32 as stated: whatever wheel zooms or zoomIn/zoomOut calls came        *)
(* between the start of a drag and a later pointer move, after the move    *)
(* the source-image point that was under the pointer at the start of the   *)
(* drag is under the pointer again.                                        *)
CexDragHoldsPointAcrossZoom ==
    (/\ last.op \in {"mousemove", "touchmove"}
     /\ last.hit
     /\ last.drag # NULL)
    => ImagePointUnder(last.client, view) = GrabbedPoint


-----------------------------------------------------------------------------
(* The direction of a zoom step.                                           *)

(* The last call was zoomOut or a wheel event with deltaY > 0 (wheel       *)
(* down); zoomIn or a wheel event with deltaY < 0 (wheel up).              *)
SteppedDown == last.op = "zoomOut" \/ (last.op = "wheel" /\ last.n > 0)
SteppedUp == last.op = "zoomIn" \/ (last.op = "wheel" /\ last.n < 0)

(* C33 as stated: with an image loaded, zoomOut and a wheel-down step      *)
(* never increase scale, and zoomIn and a wheel-up step never decrease it. *)
CexZoomDirection ==
    /\ (SteppedDown /\ imageLoaded) => Le(scale, last.view.scale)
    /\ (SteppedUp /\ imageLoaded) => Le(last.view.scale, scale)

(* C33 as amended: under a config with 0 < minZoom <= maxZoom, zoomOut and *)
(* a wheel-down step never increase a scale that is at least minZoom, and  *)
(* zoomIn and a wheel-up step never decrease a scale that is at most       *)
(* maxZoom. From a scale below minZoom, as resetView can leave it, zoomOut *)
(* with the frame defined and a wheel-down step raise scale to minZoom;    *)
(* from a scale above maxZoom, zoomIn with the frame defined and a         *)
(* wheel-up step lower it to maxZoom.                                      *)
ThmZoomDirection ==
    ValidConfig =>
      /\ (SteppedDown /\ Le(options.minZoom, last.view.scale)) =>
            Le(scale, last.view.scale)
      /\ (SteppedUp /\ Le(last.view.scale, options.maxZoom)) =>
            Le(last.view.scale, scale)
      /\ (SteppedDown /\ last.hit /\ Lt(last.view.scale, options.minZoom)) =>
            scale = options.minZoom
      /\ (SteppedUp /\ last.hit /\ Lt(options.maxZoom, last.view.scale)) =>
            scale = options.maxZoom

(* A wheel-down step on a scale inside the range lowered it, and the step  *)
(* was not clamped.                                                        *)
WitZoomDirection ==
    /\ last.op = "wheel"
    /\ last.hit
    /\ last.n > 0
    /\ WasInRange
    /\ Lt(scale, last.view.scale)
    /\ Lt(options.minZoom, scale)


-----------------------------------------------------------------------------
(* The frame is covered after resetView.                                   *)

(* The rectangle src lies within an image of size w x h.                   *)
WithinImage(src, w, h) ==
    /\ Le(Zero, src.sourceX)
    /\ Le(Zero, src.sourceY)
    /\ Le(Add(src.sourceX, src.sourceWidth), w)
    /\ Le(Add(src.sourceY, src.sourceHeight), h)

(* The view is what resetView stores for the current element and the       *)
(* cached frame, all dimensions positive.                                  *)
AtResetView ==
    /\ imageLoaded
    /\ image # 0
    /\ frameRect # NULL
    /\ NaturalWidth(image) > 0
    /\ NaturalHeight(image) > 0
    /\ Lt(Zero, Frame.width)
    /\ Lt(Zero, Frame.height)
    /\ view = ResetViewOf(NaturalWidth(image), NaturalHeight(image), Frame)

(* C34: right after resetView with positive image and frame dimensions the *)
(* extraction source rectangle lies within the source image (0 <= sourceX, *)
(* 0 <= sourceY, sourceX + sourceW <= imageWidth, sourceY + sourceH <=     *)
(* imageHeight), and a crop taken at that view draws from such a           *)
(* rectangle, so that it holds no padding.                                 *)
ThmResetCovers ==
    /\ ResetRan => WithinImage(SourceRect(Frame, view), ImgW, ImgH)
    /\ (last.op = "getCroppedImage" /\ last.ret # NULL /\ AtResetView) =>
          WithinImage(Val(last.ret).source, ImgW, ImgH)

(* A crop taken at the reset view of an image whose fit scale lies above   *)
(* maxZoom; the source rectangle is strictly inside the image on the Y     *)
(* axis and spans it on the X axis.                                        *)
WitResetCovers ==
    /\ last.op = "getCroppedImage"
    /\ last.ret # NULL
    /\ AtResetView
    /\ Lt(options.maxZoom, scale)
    /\ Val(last.ret).source.sourceX = Zero
    /\ Val(last.ret).source.sourceWidth = ImgW
    /\ Lt(Zero, Val(last.ret).source.sourceY)
    /\ Lt(Add(Val(last.ret).source.sourceY, Val(last.ret).source.sourceHeight),
          ImgH)


-----------------------------------------------------------------------------
(* The state while no image is loaded.                                     *)

(* The gesture handlers and the wheel, pan and zoom operations.            *)
ViewOps ==
    {"mousedown", "mousemove", "mouseup", "touchstart", "touchmove",
     "touchend", "wheel", "panImage", "zoomAtPoint", "zoomIn", "zoomOut"}

(* C35: in every reachable state where imageLoaded is false, scale is 1,   *)
(* offset is (0, 0) and there is no drag session; and a gesture, wheel,    *)
(* pan or zoom operation that runs while no image is loaded leaves scale   *)
(* and offset as they were and starts no drag session.                     *)
ThmIdleWithoutImage ==
    /\ ~imageLoaded => (view = DefaultView /\ dragStart = NULL)
    /\ (~imageLoaded /\ last.op \in ViewOps) =>
          (view = last.view /\ dragStart = NULL /\ ~last.hit)

(* A wheel event reached handleWheel with no image loaded: the loaded      *)
(* image had been taken away again and setupEventListeners() called.       *)
WitIdleWithoutImage ==
    /\ ~imageLoaded
    /\ last.op = "wheel"
    /\ listeners = SetupListeners
    /\ steps = 3
    /\ \E e \in 1..nloads : elems[e].state = "loaded"


-----------------------------------------------------------------------------
(* Settling of the promises of loadImage.                                  *)

(* C36 as stated: when every started file read and every started decode    *)
(* eventually completes or fails, every promise returned by loadImage      *)
(* eventually resolves or rejects, also when its load is superseded by a   *)
(* later loadImage or cancelled by clear().                                *)
CexLoadSettles ==
    \A r \in LoadIds : (promises[r] = "pending") ~> (promises[r] # "pending")


-----------------------------------------------------------------------------
(* zoomIn and zoomOut undo each other.                                     *)

(* C37: zoomIn immediately followed by zoomOut, and zoomOut immediately    *)
(* followed by zoomIn, neither step being clamped and the frame being the  *)
(* same for both, leave scale, offsetX and offsetY as they were before the *)
(* first of the two calls.                                                 *)
ThmZoomRoundTrip ==
    [][ (/\ last.hit
         /\ last'.hit
         /\ \/ last.op = "zoomIn" /\ last'.op = "zoomOut"
            \/ last.op = "zoomOut" /\ last'.op = "zoomIn"
         /\ Unclamped(Mul(last.view.scale, last.factor))
         /\ Unclamped(Mul(scale, last'.factor))
         /\ frameRect' = frameRect)
        => view' = last.view ]_vars

(* zoomOut has brought the view back to the fit of the loaded image from   *)
(* a view whose scale was (1 + zoomStep) times the fit scale and whose     *)
(* offset differed on both axes; nothing was clamped.                      *)
WitZoomRoundTrip ==
    /\ last.op = "zoomOut"
    /\ last.hit
    /\ steps = 2
    /\ AtResetView
    /\ last.view.scale = Mul(scale, ZoomInFactor(options))
    /\ Unclamped(scale)
    /\ Unclamped(last.view.scale)
    /\ last.view.offsetX # offsetX
    /\ last.view.offsetY # offsetY


-----------------------------------------------------------------------------
(* Saving a crop and moving on (app.js).                                   *)

(* C38 as stated: saveCropAndMoveNext triggers a download and advances     *)
(* the current image index only when getCroppedImage returned image data;  *)
(* when it returned null (the current image still loading, or the frame    *)
(* undefined) nothing is downloaded by the call, and the index stays as it *)
(* was when the rest of the method runs after its await.                   *)
CexSaveOnlyOnCrop ==
    [][ (/\ last'.op \in {"saveCropAndMoveNext", "saveCropAndMoveNext.then"}
         /\ last'.hit
         /\ last'.ret = NULL)
        => /\ app'.downloads = app.downloads
           /\ app'.currentImageIndex = app.currentImageIndex ]_vars

====
